---- MODULE Spec2Model ----
(***************************************************************************)
(* A model of the Nuclear proof-of-stake consensus engine:                 *)
(*   - the DoS guard (nuclear/consensus/dos.go),                           *)
(*   - header verification, batch verification and finalisation            *)
(*     (the engine source, src/unnamed/part_000).                          *)
(*                                                                         *)
(* Machine words.  The engine computes on uint64.  TLC's integers are 32   *)
(* bits wide, so a word of the model is WordBits wide and every unsigned   *)
(* operation is taken modulo 2^WordBits: wrap-around happens as in the     *)
(* code, at a smaller modulus.                                             *)
(***************************************************************************)
EXTENDS Integers, Sequences, FiniteSets, TLC

VARIABLES
    knownStakes,   \* e.knownStakes : KnownStakeKey -> KnownStakeValue
    nextKSPurge,   \* e.nextKSPurge
    callGas,       \* e.callGas
    xferGas,       \* e.xferGas
    clock,         \* what e.now() returns
    inp,           \* the header (and the chain facts about it) handed to VerifyHeader
    sealFlag,      \* the seal argument of VerifyHeader
    budget,        \* VerifyHeader calls left in this behaviour
    last,          \* the outcome of the last VerifyHeader call
    pc,            \* concurrent callers of checkDoS: where each one stands
    loc,           \* ... and its local variables
    accepted,      \* the headers checkDoS has accepted, with their timestamps
    headers,       \* VerifyHeaders: the headers argument
    seals,         \* ... the seals argument
    abort,         \* ... the abort channel has been closed
    ready,         \* ... tokens buffered in the ready channel
    results,       \* ... values buffered in the results channel
    task,          \* ... the background task: position, loop index, err
    received,      \* ... what the caller has received from results
    verified,      \* ... the VerifyHeader calls the task has made
    readySent,     \* ... tokens the caller has sent on ready
    atAbort,       \* ... the counts at the moment abort was closed
    fin,           \* Finalize: its arguments (header, state, txs)
    run1,          \* ... the outcome of Finalize on them
    run2,          \* ... the outcome of Finalize on the block of run1
    evm,           \* a contract read through the EVM: position, state journal, snapshots
    sealer,        \* Seal and SealHash: the txhash cache and the blocks published
    cb,            \* SetMinerCB: the callbacks of the engine and the calls in progress
    mn,            \* processMasternodes: the storage of the masternode list
    rw             \* processBlockRewards: the state and the calls made on it

engineVars == <<knownStakes, nextKSPurge, callGas, xferGas>>
seqVars == <<inp, sealFlag, last>>
concVars == <<pc, loc, accepted>>

batchVars == <<headers, seals, abort, ready, results, task, received, verified, readySent, atAbort>>
finVars == <<fin, run1, run2>>
extraVars == <<cb, mn, rw>>
auxVars == <<evm, sealer, extraVars>>
vars == <<engineVars, clock, budget, seqVars, concVars, batchVars, finVars, auxVars>>

---------------------------------------------------------------------------
(* Bounds of the model *)

WordBits == 16
MaxTick == 2
StakeThrottle == 2
MaxDefects == 2
MaxCalls == 2
NProcs == 2
MaxConcCalls == 3
MaxBatch == 3
MaxTxs == 3
MaxWrites == 2

---------------------------------------------------------------------------
(* Program constants *)

OldForkPeriod == 900
sealLen == 65
MaximumExtraDataSize == 32
MinGasLimit == 5000
GasLimitBoundDivisor == 1024
Nuclear_MigrationContract == 776
InitialCallGas == 30000
InitialXferGas == 0

Word == 2 ^ WordBits
\* cap := uint64(0x7fffffffffffffff), the largest signed word
GasCap == 2 ^ (WordBits - 1) - 1

Sub64(a, b) == (a + Word - b) % Word
Add64(a, b) == (a + b) % Word

ZeroAddress == 0
AddrA == Nuclear_MigrationContract + 1
AddrB == Nuclear_MigrationContract + 2

Nil == "nil"

---------------------------------------------------------------------------
(* The chain handed to the engine: a genesis block P1 and its child P2,   *)
(* the Gen-2 migration block.  "PX" is a hash the chain does not know.    *)

ChainHeaders ==
    { [hash |-> "P1", number |-> 0, time |-> 0, gasLimit |-> MinGasLimit, migration |-> FALSE],
      [hash |-> "P2", number |-> 1, time |-> 2, gasLimit |-> MinGasLimit, migration |-> TRUE] }

HeaderByHash(hash) == CHOOSE p \in ChainHeaders : p.hash = hash

KnownHash(hash) == \E p \in ChainHeaders : p.hash = hash

\* chain.GetHeader(hash, number) # nil: a block chain looks the header up
\* under (hash, number); a reader that keys on the hash alone
\* (strict = FALSE) ignores the number.  When it is found the header is
\* HeaderByHash(hash).
HasHeader(strict, hash, number) ==
    KnownHash(hash) /\ (~strict \/ HeaderByHash(hash).number = number)

\* The instants e.now() can return: the first seconds of the epoch, where
\* now - OldForkPeriod wraps, the first seconds after OldForkPeriod, and the
\* last seconds of the clock's word, where now + StakeThrottle wraps.
Instants ==
    (0 .. MaxTick) \cup (OldForkPeriod .. (OldForkPeriod + MaxTick))
        \cup ((Word - StakeThrottle) .. (Word - 1))

---------------------------------------------------------------------------
(* Headers.  A header is a record of its fields; the fields below the     *)
(* nonce are what the chain handed to VerifyHeader knows about it.        *)

\* calcPoSModifier(chain, time, parent): a digest of the time and the parent
CalcPoSModifier(time, parent) == <<"modifier", time, parent.hash>>

\* calcPoSDifficulty(chain, time, parent, time_target)
CalcPoSDifficulty(time, parent) == 1 + parent.number + time

\* calcTimeTarget(chain, parent): the window of a child's timestamp
CalcTimeTarget(parent) == [min |-> parent.time + 1, max |-> parent.time + 2]

\* checkTime(header, time_target) = nil
CheckTime(h, tt) == h.time >= tt.min /\ h.time <= tt.max

\* A header that passes every check as a child of chain header p.
BaseHeader(p) ==
    [ parentHash  |-> p.hash,
      number      |-> p.number + 1,
      coinbase    |-> AddrA,
      extraLen    |-> MaximumExtraDataSize,
      migration   |-> FALSE,
      time        |-> p.time + 1,
      mixDigest   |-> CalcPoSModifier(p.time + 1, p),
      difficulty  |-> CalcPoSDifficulty(p.time + 1, p),
      gasLimit    |-> p.gasLimit,
      gasUsed     |-> 0,
      nonce       |-> 0,
      sigLen      |-> sealLen,
      sigValues   |-> TRUE,      \* ValidateSignatureValues(v, r, s, true)
      ecrecoverOk |-> TRUE,      \* Ecrecover returns no error
      recovered   |-> AddrA,     \* the address Ecrecover yields
      posHash     |-> TRUE,      \* verifyPoSHash(chain, header) = nil
      forkHash    |-> TRUE,      \* misc.VerifyForkHashes(...) = nil
      strict      |-> TRUE,      \* the chain keys GetHeader on (hash, number)
      inStore     |-> FALSE,     \* chain.GetHeader(header.Hash(), number) # nil
      parentState |-> TRUE,      \* chain.CalculateBlockState(parent) # nil
      blacklisted |-> FALSE,     \* core.IsBlacklisted(blockst, coinbase)
      hasCode     |-> FALSE,     \* blockst.GetCodeSize(coinbase) > 0
      dposSigner  |-> AddrB,     \* what signerAddress() of the coinbase returns
      head        |-> "P1" ]     \* chain.CurrentHeader()

\* header.Hash(): the header's content (collision-free)
Hash(h) ==
    << h.parentHash, h.number, h.coinbase, h.extraLen, h.migration, h.time,
       h.mixDigest, h.difficulty, h.gasLimit, h.gasUsed, h.nonce,
       h.sigLen, h.sigValues, h.recovered >>

\* The headers one field away from h.
Vary1(h) ==
    { h,
      [h EXCEPT !.extraLen = MaximumExtraDataSize + 1],
      [h EXCEPT !.migration = TRUE],
      [h EXCEPT !.coinbase = Nuclear_MigrationContract],
      [h EXCEPT !.parentHash = "PX"],
      [h EXCEPT !.number = 0],
      [h EXCEPT !.number = 3],
      [h EXCEPT !.time = 0],
      [h EXCEPT !.mixDigest = <<"modifier", 0, "PX">>],
      [h EXCEPT !.difficulty = 0],
      [h EXCEPT !.gasLimit = GasCap + 1],
      [h EXCEPT !.gasLimit = MinGasLimit + (MinGasLimit \div GasLimitBoundDivisor) - 1],
      [h EXCEPT !.gasLimit = MinGasLimit + (MinGasLimit \div GasLimitBoundDivisor)],
      [h EXCEPT !.gasLimit = MinGasLimit - 1],
      [h EXCEPT !.gasLimit = MinGasLimit - (MinGasLimit \div GasLimitBoundDivisor)],
      [h EXCEPT !.gasUsed = GasCap],
      [h EXCEPT !.nonce = 1],
      [h EXCEPT !.sigLen = sealLen - 1],
      [h EXCEPT !.sigValues = FALSE],
      [h EXCEPT !.ecrecoverOk = FALSE],
      [h EXCEPT !.recovered = AddrB],
      [h EXCEPT !.recovered = Nuclear_MigrationContract],
      [h EXCEPT !.posHash = FALSE],
      [h EXCEPT !.forkHash = FALSE],
      [h EXCEPT !.strict = FALSE],
      [h EXCEPT !.inStore = TRUE],
      [h EXCEPT !.parentState = FALSE],
      [h EXCEPT !.blacklisted = TRUE],
      [h EXCEPT !.hasCode = TRUE],
      [h EXCEPT !.dposSigner = AddrA],
      [h EXCEPT !.head = "P2"] }

RECURSIVE Vary(_, _)
Vary(S, n) == IF n = 0 THEN S ELSE Vary(UNION { Vary1(h) : h \in S }, n - 1)

BaseHeaders == { BaseHeader(p) : p \in ChainHeaders }

\* Every header at most MaxDefects fields away from a valid one.
Headers == Vary(BaseHeaders, MaxDefects)

---------------------------------------------------------------------------
(* The EVM invoker: core.ApplyMessage with a gas pool of `gas` on a call   *)
(* that consumes `cost`.  A call that is given less gas than it consumes   *)
(* yields an error (or an empty output that fails to unpack).              *)

CallCost == 21000

ApplyMessage(gas, cost, output) ==
    IF gas < cost THEN [err |-> "evm", out |-> ZeroAddress]
                  ELSE [err |-> Nil, out |-> output]

---------------------------------------------------------------------------
(* VerifySeal *)

\* the signature is looked at before the state and the blacklist
VerifySeal_SigFirst(h, cg) ==
    IF h.sigLen # sealLen THEN "errMissingSig"
    ELSE IF ~h.sigValues THEN "ErrInvalidSig"
    ELSE IF ~h.parentState THEN "ErrMissingState"
    ELSE IF h.blacklisted THEN "errBlacklistedCoinbase"
    ELSE IF ~h.ecrecoverOk THEN "ecrecover"
    ELSE IF h.recovered # h.coinbase THEN "errInvalidSig"
    ELSE Nil

\* a signer other than the coinbase is never accepted
VerifySeal_NoDelegation(h, cg) ==
    IF ~h.parentState THEN "ErrMissingState"
    ELSE IF h.blacklisted THEN "errBlacklistedCoinbase"
    ELSE IF h.sigLen # sealLen THEN "errMissingSig"
    ELSE IF ~h.sigValues THEN "ErrInvalidSig"
    ELSE IF ~h.ecrecoverOk THEN "ecrecover"
    ELSE IF h.recovered # h.coinbase THEN "errInvalidSig"
    ELSE Nil

VerifySeal(h, cg) ==
    IF ~h.parentState THEN "ErrMissingState"
    ELSE IF h.blacklisted THEN "errBlacklistedCoinbase"
    ELSE IF h.sigLen # sealLen THEN "errMissingSig"
    ELSE IF ~h.sigValues THEN "ErrInvalidSig"
    ELSE IF ~h.ecrecoverOk THEN "ecrecover"
    ELSE IF h.recovered # h.coinbase THEN
        IF ~HasHeader(h.strict, h.parentHash, Sub64(h.number, 1)) THEN "ErrUnknownAncestor"
        ELSE IF h.hasCode THEN
            LET res == ApplyMessage(cg, CallCost, h.dposSigner)
            IN  IF res.err # Nil THEN res.err
                ELSE IF res.out = h.recovered THEN Nil
                ELSE "errInvalidSig"
        ELSE "errInvalidSig"
    ELSE Nil

---------------------------------------------------------------------------
(* The DoS guard (dos.go) *)

\* the difference taken as a signed number
isActive_Signed(ksv, now) == now - ksv.ts < StakeThrottle

\* KnownStakeValue.isActive
isActive(ksv, now) == Sub64(now, ksv.ts) < StakeThrottle

KnownStakeKey(h) == <<h.coinbase, h.parentHash>>

KnownStakeValue(h, now) == [block |-> Hash(h), ts |-> now]

\* e.knownStakes.Store(k, v)
Store(ks, k, v) == [x \in (DOMAIN ks) \cup {k} |-> IF x = k THEN v ELSE ks[x]]

\* e.knownStakes.Delete(k)
Delete(ks, k) == [x \in (DOMAIN ks) \ {k} |-> ks[x]]

\* OldForkRejects with the head compared by >= instead of >
OldForkRejects_HeadGeq(parent, head, now) ==
    LET old_fork_threshold == Sub64(now, OldForkPeriod)
    IN  parent.time < old_fork_threshold /\ head.time >= old_fork_threshold

\* POS-8: the old-fork rule rejects
OldForkRejects(parent, head, now) ==
    LET old_fork_threshold == Sub64(now, OldForkPeriod)
    IN  parent.time < old_fork_threshold /\ head.time > old_fork_threshold

\* ThrottleRejects without the test that the entry is active
ThrottleRejects_NoActive(ks, h, now) ==
    LET k == KnownStakeKey(h)
    IN  k \in DOMAIN ks /\ ~isActive(ks[k], now) /\ ks[k].block # Hash(h)

\* POS-9: LoadOrStore finds an active entry for another block
ThrottleRejects(ks, h, now) ==
    LET k == KnownStakeKey(h)
    IN  k \in DOMAIN ks /\ isActive(ks[k], now) /\ ks[k].block # Hash(h)

\* the sweep deletes every entry older than now
Purge_Older(ks, now) ==
    [x \in { k \in DOMAIN ks : ks[k].ts = now } |-> ks[x]]

\* The sweep of checkDoS: Range deletes every entry that is not active.
Purge(ks, now) ==
    [x \in { k \in DOMAIN ks : isActive(ks[k], now) } |-> ks[x]]

\* the new value is stored before the entry found is tested
checkDoS_StoreFirst(h, parent, head, now1, now2, ks, purge) ==
    IF OldForkRejects(parent, head, now1)
    THEN [err |-> "ErrDoSThrottle", ks |-> ks, purge |-> purge]
    ELSE LET ks1 == Store(ks, KnownStakeKey(h), KnownStakeValue(h, now2))
         IN  IF ThrottleRejects(ks, h, now2)
             THEN [err |-> "ErrDoSThrottle", ks |-> ks1, purge |-> purge]
             ELSE IF purge < now2
             THEN [err |-> Nil, ks |-> Purge(ks1, now2), purge |-> Add64(now2, StakeThrottle)]
             ELSE [err |-> Nil, ks |-> ks1, purge |-> purge]

\* an entry that is found and does not reject is left as it is
checkDoS_NoOverwrite(h, parent, head, now1, now2, ks, purge) ==
    IF OldForkRejects(parent, head, now1)
    THEN [err |-> "ErrDoSThrottle", ks |-> ks, purge |-> purge]
    ELSE IF ThrottleRejects(ks, h, now2)
    THEN [err |-> "ErrDoSThrottle", ks |-> ks, purge |-> purge]
    ELSE LET ks1 == IF KnownStakeKey(h) \in DOMAIN ks THEN ks
                    ELSE Store(ks, KnownStakeKey(h), KnownStakeValue(h, now2))
         IN  IF purge < now2
             THEN [err |-> Nil, ks |-> Purge(ks1, now2), purge |-> Add64(now2, StakeThrottle)]
             ELSE [err |-> Nil, ks |-> ks1, purge |-> purge]

\* checkDoS run from start to end by one caller: now1 and now2 are what the
\* two e.now() calls return.
checkDoS(h, parent, head, now1, now2, ks, purge) ==
    IF OldForkRejects(parent, head, now1)
    THEN [err |-> "ErrDoSThrottle", ks |-> ks, purge |-> purge]
    ELSE IF ThrottleRejects(ks, h, now2)
    THEN [err |-> "ErrDoSThrottle", ks |-> ks, purge |-> purge]
    ELSE LET ks1 == Store(ks, KnownStakeKey(h), KnownStakeValue(h, now2))
         IN  IF purge < now2
             THEN [err |-> Nil, ks |-> Purge(ks1, now2), purge |-> Add64(now2, StakeThrottle)]
             ELSE [err |-> Nil, ks |-> ks1, purge |-> purge]

---------------------------------------------------------------------------
(* VerifyHeader.  The result is the error returned ("nil" for none), the   *)
(* checks evaluated, in the order of their evaluation, and the DoS table   *)
(* the call leaves behind.                                                 *)

Outcome(err, evaluated, ks, purge) ==
    [err |-> err, evaluated |-> evaluated, ks |-> ks, purge |-> purge]

\* diff := int64(parent.GasLimit) - int64(header.GasLimit); if diff < 0 { diff *= -1 }
GasDiff(h, parent) ==
    IF parent.gasLimit >= h.gasLimit THEN parent.gasLimit - h.gasLimit
                                     ELSE h.gasLimit - parent.gasLimit

\* a difference equal to the limit is let through
GasBoundExceeded_Strict(h, parent) ==
    GasDiff(h, parent) > (parent.gasLimit \div GasLimitBoundDivisor)
        /\ ~h.migration /\ ~parent.migration

GasBoundExceeded(h, parent) ==
    GasDiff(h, parent) >= (parent.gasLimit \div GasLimitBoundDivisor)
        /\ ~h.migration /\ ~parent.migration

\* the DoS guard without the look-up of the header in the store
VerifyHeaderTail_SealOnly(h, seal, parent, now1, now2, ks, purge, ev) ==
    LET ev1 == Append(ev, "VerifyForkHashes")
    IN  IF ~h.forkHash THEN Outcome("fork hash", ev1, ks, purge)
        ELSE IF seal
        THEN LET dos == checkDoS(h, parent, HeaderByHash(h.head), now1, now2, ks, purge)
             IN  Outcome(dos.err, Append(ev1, "checkDoS"), dos.ks, dos.purge)
        ELSE Outcome(Nil, ev1, ks, purge)

\* The checks after the seal: VerifyForkHashes, then the DoS guard.
VerifyHeaderTail(h, seal, parent, now1, now2, ks, purge, ev) ==
    LET ev1 == Append(ev, "VerifyForkHashes")
    IN  IF ~h.forkHash THEN Outcome("fork hash", ev1, ks, purge)
        ELSE IF seal /\ ~h.inStore
        THEN LET dos == checkDoS(h, parent, HeaderByHash(h.head), now1, now2, ks, purge)
             IN  Outcome(dos.err, Append(ev1, "checkDoS"), dos.ks, dos.purge)
        ELSE Outcome(Nil, ev1, ks, purge)

\* the seal checks whatever the seal flag is
VerifyHeaderSeal_Always(h, seal, parent, cg, now1, now2, ks, purge, ev) ==
    IF TRUE
    THEN LET ev1 == Append(ev, "VerifySeal")
             ev2 == Append(ev1, "verifyPoSHash")
             err == VerifySeal(h, cg)
         IN  IF err # Nil THEN Outcome(err, ev1, ks, purge)
             ELSE IF ~h.posHash THEN Outcome("PoS hash", ev2, ks, purge)
             ELSE VerifyHeaderTail(h, seal, parent, now1, now2, ks, purge, ev2)
    ELSE VerifyHeaderTail(h, seal, parent, now1, now2, ks, purge, ev)

\* The seal-gated checks: VerifySeal, then verifyPoSHash.
VerifyHeaderSeal(h, seal, parent, cg, now1, now2, ks, purge, ev) ==
    IF seal
    THEN LET ev1 == Append(ev, "VerifySeal")
             ev2 == Append(ev1, "verifyPoSHash")
             err == VerifySeal(h, cg)
         IN  IF err # Nil THEN Outcome(err, ev1, ks, purge)
             ELSE IF ~h.posHash THEN Outcome("PoS hash", ev2, ks, purge)
             ELSE VerifyHeaderTail(h, seal, parent, now1, now2, ks, purge, ev2)
    ELSE VerifyHeaderTail(h, seal, parent, now1, now2, ks, purge, ev)

\* VerifyHeaderGas without the minimum
VerifyHeaderGas_NoMin(h, seal, parent, cg, now1, now2, ks, purge, ev) ==
    LET ev1 == Append(ev, "gasCap")
        ev2 == Append(ev1, "gasUsed")
        ev3 == Append(ev2, "gasBound")
        ev4 == Append(ev3, "gasMin")
        ev5 == Append(ev4, "number")
    IN  IF h.gasLimit > GasCap THEN Outcome("invalid gasLimit", ev1, ks, purge)
        ELSE IF h.gasUsed > h.gasLimit /\ ~h.migration
        THEN Outcome("invalid gasUsed", ev2, ks, purge)
        ELSE IF GasBoundExceeded(h, parent)
        THEN Outcome("invalid gas limit bound", ev3, ks, purge)
        ELSE IF h.number - parent.number # 1
        THEN Outcome("ErrInvalidNumber", ev5, ks, purge)
        ELSE VerifyHeaderSeal(h, seal, parent, cg, now1, now2, ks, purge, ev5)

\* The gas rules and the block number.
VerifyHeaderGas(h, seal, parent, cg, now1, now2, ks, purge, ev) ==
    LET ev1 == Append(ev, "gasCap")
        ev2 == Append(ev1, "gasUsed")
        ev3 == Append(ev2, "gasBound")
        ev4 == Append(ev3, "gasMin")
        ev5 == Append(ev4, "number")
    IN  IF h.gasLimit > GasCap THEN Outcome("invalid gasLimit", ev1, ks, purge)
        ELSE IF h.gasUsed > h.gasLimit /\ ~h.migration
        THEN Outcome("invalid gasUsed", ev2, ks, purge)
        ELSE IF GasBoundExceeded(h, parent)
        THEN Outcome("invalid gas limit bound", ev3, ks, purge)
        ELSE IF h.gasLimit < MinGasLimit
        THEN Outcome("invalid gas limit minimum", ev4, ks, purge)
        ELSE IF h.number - parent.number # 1
        THEN Outcome("ErrInvalidNumber", ev5, ks, purge)
        ELSE VerifyHeaderSeal(h, seal, parent, cg, now1, now2, ks, purge, ev5)

\* VerifyHeaderPoS with the difficulty checked before the modifier
VerifyHeaderPoS_DifficultyFirst(h, seal, parent, cg, now1, now2, ks, purge, ev) ==
    LET ev1 == Append(ev, "time")
        ev2 == Append(ev1, "difficulty")
        ev3 == Append(ev2, "modifier")
    IN  IF ~CheckTime(h, CalcTimeTarget(parent)) THEN Outcome("time", ev1, ks, purge)
        ELSE IF h.difficulty # CalcPoSDifficulty(h.time, parent)
        THEN Outcome("invalid difficulty", ev2, ks, purge)
        ELSE IF h.mixDigest # CalcPoSModifier(h.time, parent)
        THEN Outcome("invalid modifier", ev3, ks, purge)
        ELSE VerifyHeaderGas(h, seal, parent, cg, now1, now2, ks, purge, ev3)

\* The time window, the modifier and the difficulty.
VerifyHeaderPoS(h, seal, parent, cg, now1, now2, ks, purge, ev) ==
    LET ev1 == Append(ev, "time")
        ev2 == Append(ev1, "modifier")
        ev3 == Append(ev2, "difficulty")
    IN  IF ~CheckTime(h, CalcTimeTarget(parent)) THEN Outcome("time", ev1, ks, purge)
        ELSE IF h.mixDigest # CalcPoSModifier(h.time, parent)
        THEN Outcome("invalid modifier", ev2, ks, purge)
        ELSE IF h.difficulty # CalcPoSDifficulty(h.time, parent)
        THEN Outcome("invalid difficulty", ev3, ks, purge)
        ELSE VerifyHeaderGas(h, seal, parent, cg, now1, now2, ks, purge, ev3)

\* the parent is looked up before the static checks
VerifyHeader_AncestorFirst(h, seal, cg, now1, now2, ks, purge) ==
    LET ev1 == <<"ancestor">>
        ev2 == <<"ancestor", "extra">>
        ev3 == <<"ancestor", "extra", "migration">>
    IN  IF ~HasHeader(h.strict, h.parentHash, Sub64(h.number, 1))
        THEN IF h.number # 0
             THEN Outcome("ErrUnknownAncestor", ev1, ks, purge)
             ELSE Outcome(Nil, ev1, ks, purge)
        ELSE IF h.extraLen > MaximumExtraDataSize /\ ~h.migration
        THEN Outcome("extra-data too long", ev2, ks, purge)
        ELSE IF h.migration /\ h.coinbase # Nuclear_MigrationContract
        THEN Outcome("Invalid Migration", ev3, ks, purge)
        ELSE VerifyHeaderPoS(h, seal, HeaderByHash(h.parentHash), cg,
                             now1, now2, ks, purge, ev3)

\* a missing parent is an error for block 0 too
VerifyHeader_NoGenesis(h, seal, cg, now1, now2, ks, purge) ==
    LET ev1 == <<"extra">>
        ev2 == <<"extra", "migration">>
        ev3 == <<"extra", "migration", "ancestor">>
    IN  IF h.extraLen > MaximumExtraDataSize /\ ~h.migration
        THEN Outcome("extra-data too long", ev1, ks, purge)
        ELSE IF h.migration /\ h.coinbase # Nuclear_MigrationContract
        THEN Outcome("Invalid Migration", ev2, ks, purge)
        ELSE IF ~HasHeader(h.strict, h.parentHash, Sub64(h.number, 1))
        THEN Outcome("ErrUnknownAncestor", ev3, ks, purge)
        ELSE VerifyHeaderPoS(h, seal, HeaderByHash(h.parentHash), cg,
                             now1, now2, ks, purge, ev3)

VerifyHeader(h, seal, cg, now1, now2, ks, purge) ==
    LET ev1 == <<"extra">>
        ev2 == <<"extra", "migration">>
        ev3 == <<"extra", "migration", "ancestor">>
    IN  IF h.extraLen > MaximumExtraDataSize /\ ~h.migration
        THEN Outcome("extra-data too long", ev1, ks, purge)
        ELSE IF h.migration /\ h.coinbase # Nuclear_MigrationContract
        THEN Outcome("Invalid Migration", ev2, ks, purge)
        ELSE IF ~HasHeader(h.strict, h.parentHash, Sub64(h.number, 1))
        THEN IF h.number # 0
             THEN Outcome("ErrUnknownAncestor", ev3, ks, purge)
             ELSE Outcome(Nil, ev3, ks, purge)
        ELSE VerifyHeaderPoS(h, seal, HeaderByHash(h.parentHash), cg,
                             now1, now2, ks, purge, ev3)

---------------------------------------------------------------------------
(* Sequential use of the engine: one caller verifies one header after the *)
(* other, the clock and the header change in between.                      *)

\* What is remembered of the call before the last one.
NoSummary == [called |-> FALSE, inp |-> BaseHeader(HeaderByHash("P1")), now2 |-> 0,
              err |-> Nil, evaluated |-> <<>>]

Summary(l) == [called |-> l.called, inp |-> l.inp, now2 |-> l.now2,
               err |-> l.out.err, evaluated |-> l.out.evaluated]

NoCall ==
    [ called |-> FALSE, inp |-> BaseHeader(HeaderByHash("P1")), seal |-> FALSE,
      now1 |-> 0, now2 |-> 0, ks |-> <<>>, purge |-> 0, cg |-> InitialCallGas,
      out |-> Outcome(Nil, <<>>, <<>>, 0), before |-> NoSummary ]

EngineInit ==
    /\ knownStakes = <<>>
    /\ nextKSPurge = 0
    /\ callGas = InitialCallGas
    /\ xferGas = InitialXferGas

\* no concurrent caller
ConcIdle ==
    /\ pc = <<>>
    /\ loc = <<>>
    /\ accepted = {}

\* no batch verification has been asked for
BatchIdle ==
    /\ headers = <<>> /\ seals = <<>> /\ abort = FALSE /\ ready = 0 /\ results = <<>>
    /\ task = [pc |-> "done", i |-> 1, err |-> Nil]
    /\ received = <<>> /\ verified = <<>> /\ readySent = 0
    /\ atAbort = [started |-> 0, delivered |-> 0, ready |-> 0, readySent |-> 0]

\* Finalize has not been called
NoRun ==
    [ called |-> FALSE, err |-> Nil, stepErr |-> Nil, hasBlock |-> FALSE, txs |-> <<>>,
      root |-> <<>>, uncleHash |-> Nil, receipts |-> 0, input |-> <<>>, prefix |-> <<>>,
      ctxs |-> <<>>, derived |-> <<>>, evaluated |-> <<>> ]

\* no contract read is under way, Seal has not been called
EvmOff == evm = [pc |-> "off"]

SealerOff == sealer = [pc |-> "off"]

CbOff == cb = [pc |-> "off"]

MnOff == mn = [pc |-> "off"]

RwOff == rw = [pc |-> "off"]

ExtraOff == CbOff /\ MnOff /\ RwOff

AuxIdle == EvmOff /\ SealerOff /\ ExtraOff

FinIdle ==
    /\ fin = [coinbase |-> ZeroAddress, root |-> <<>>, uncleHash |-> Nil, state |-> <<>>, txs |-> <<>>]
    /\ run1 = NoRun
    /\ run2 = NoRun

\* the instants the second e.now() of a call can return
LaterInstants(now) == { t \in Instants : t = now \/ t = now + 1 }

DoVerifyHeader ==
    /\ budget > 0
    /\ \E now2 \in LaterInstants(clock) :
         LET out == VerifyHeader(inp, sealFlag, callGas, clock, now2, knownStakes, nextKSPurge)
         IN  /\ knownStakes' = out.ks
             /\ nextKSPurge' = out.purge
             /\ clock' = now2
             /\ last' = [ called |-> TRUE, inp |-> inp, seal |-> sealFlag,
                          now1 |-> clock, now2 |-> now2, ks |-> knownStakes,
                          purge |-> nextKSPurge, cg |-> callGas, out |-> out,
                          before |-> Summary(last) ]
    /\ budget' = budget - 1
    /\ UNCHANGED <<callGas, xferGas, inp, sealFlag, concVars, batchVars, finVars, auxVars>>

\* the injected clock moves
SetClock ==
    /\ budget > 0
    /\ \E t \in Instants : t # clock /\ clock' = t
    /\ UNCHANGED <<engineVars, budget, seqVars, concVars, batchVars, finVars, auxVars>>

\* the header as a child of the other chain header
Rebase(h, p) ==
    [h EXCEPT !.parentHash = p.hash, !.number = p.number + 1, !.time = p.time + 1,
              !.mixDigest = CalcPoSModifier(p.time + 1, p),
              !.difficulty = CalcPoSDifficulty(p.time + 1, p),
              !.gasLimit = p.gasLimit]

\* the caller turns to another header: another block of the same proposer
\* on the same parent, or a block on the other parent.
NextHeader ==
    /\ budget > 0
    /\ last.called
    /\ \/ inp' = [inp EXCEPT !.nonce = 1 - inp.nonce]
       \/ \E p \in ChainHeaders : p.hash # inp.parentHash /\ inp' = Rebase(inp, p)
    /\ UNCHANGED <<engineVars, clock, budget, sealFlag, last, concVars, batchVars, finVars, auxVars>>

Init ==
    /\ EngineInit
    /\ AuxIdle
    /\ ConcIdle
    /\ BatchIdle
    /\ FinIdle
    /\ clock \in Instants
    /\ inp \in { [h EXCEPT !.head = x] : h \in BaseHeaders, x \in {"P1", "P2"} }
    /\ sealFlag = TRUE
    /\ budget = MaxCalls
    /\ last = NoCall

Next == DoVerifyHeader \/ SetClock \/ NextHeader

Spec == Init /\ [][Next]_vars

\* Every header of Headers, verified with and without its seal.
InitVH ==
    /\ EngineInit
    /\ AuxIdle
    /\ ConcIdle
    /\ BatchIdle
    /\ FinIdle
    /\ clock \in {0, OldForkPeriod + 1}
    /\ inp \in Headers
    /\ sealFlag \in BOOLEAN
    /\ budget = 2
    /\ last = NoCall

NextVH == DoVerifyHeader

SpecVH == InitVH /\ [][NextVH]_vars

---------------------------------------------------------------------------
(* Properties of the DoS guard and of VerifyHeader, one caller *)

Reached(l, check) == \E i \in 1 .. Len(l.out.evaluated) : l.out.evaluated[i] = check

SameKey(h1, h2) == h1.coinbase = h2.coinbase /\ h1.parentHash = h2.parentHash

\* the entry of the header's key when the last call started is active
\* at the call's `now` and names another block
ActiveOtherEntry(l) ==
    LET k == <<l.inp.coinbase, l.inp.parentHash>>
    IN  /\ k \in DOMAIN l.ks
        /\ (l.now2 + Word - l.ks[k].ts) % Word < StakeThrottle
        /\ l.ks[k].block # Hash(l.inp)

\* the old-fork condition of the last call, threshold = now - OldForkPeriod
\* in the engine's unsigned arithmetic
OldForkCondition(l) ==
    LET threshold == (l.now1 + Word - OldForkPeriod) % Word
        parent == HeaderByHash(l.inp.parentHash)
        current == HeaderByHash(l.inp.head)
    IN  parent.time < threshold /\ current.time > threshold

\* C1: a checkDoS call that finds, under the header's (coinbase, parentHash),
\* an entry P with now - P.ts < StakeThrottle and P.block other than the
\* header's hash returns ErrDoSThrottle; and a header H2 verified right
\* after an accepted H1 of the same key and another hash, within the
\* throttle window, is rejected with ErrDoSThrottle.
C1_StakeThrottle ==
    /\ (last.called /\ Reached(last, "checkDoS") /\ ActiveOtherEntry(last))
          => last.out.err = "ErrDoSThrottle"
    /\ ( /\ last.called /\ last.before.called
         /\ Reached(last, "checkDoS")
         /\ last.before.err = Nil
         /\ \E i \in 1 .. Len(last.before.evaluated) : last.before.evaluated[i] = "checkDoS"
         /\ SameKey(last.inp, last.before.inp)
         /\ Hash(last.inp) # Hash(last.before.inp)
         /\ last.now2 >= last.before.now2
         /\ last.now2 - last.before.now2 < StakeThrottle )
          => last.out.err = "ErrDoSThrottle"

\* C1 witness: H1 was accepted, H2 of the same key was throttled by the
\* stake rule (the old-fork rule did not apply).
C1_Witness ==
    /\ last.called /\ last.before.called
    /\ last.before.err = Nil
    /\ SameKey(last.inp, last.before.inp)
    /\ Hash(last.inp) # Hash(last.before.inp)
    /\ Reached(last, "checkDoS")
    /\ ActiveOtherEntry(last)
    /\ ~OldForkCondition(last)
    /\ last.out.err = "ErrDoSThrottle"

\* C3: a checkDoS call returns ErrDoSThrottle whenever parent.Time <
\* threshold and head.Time > threshold; otherwise the old-fork rule does not
\* reject and the verdict is that of the stake-throttle rule.
C3_OldFork ==
    (last.called /\ Reached(last, "checkDoS")) =>
        /\ OldForkCondition(last) => last.out.err = "ErrDoSThrottle"
        /\ ~OldForkCondition(last) =>
              /\ ActiveOtherEntry(last) => last.out.err = "ErrDoSThrottle"
              /\ ~ActiveOtherEntry(last) => last.out.err = Nil

\* C3 witness: an old fork rejected while the head is fresh and no stake
\* entry stands against the header.
C3_Witness ==
    /\ last.called /\ Reached(last, "checkDoS")
    /\ OldForkCondition(last)
    /\ ~ActiveOtherEntry(last)
    /\ last.out.err = "ErrDoSThrottle"

---------------------------------------------------------------------------
(* The order of the checks of VerifyHeader *)

\* The order the checks are specified in; the fork-hash check stands
\* between the seal checks and the DoS guard.
CheckOrder ==
    << "extra", "migration", "ancestor", "time", "modifier", "difficulty",
       "gas", "number", "seal", "fork", "dos" >>

Rank(stage) == CHOOSE i \in 1 .. Len(CheckOrder) : CheckOrder[i] = stage

\* the rule an evaluated check belongs to
StageOf(check) ==
    IF check \in {"gasCap", "gasUsed", "gasBound", "gasMin"} THEN "gas"
    ELSE IF check \in {"VerifySeal", "verifyPoSHash"} THEN "seal"
    ELSE IF check = "VerifyForkHashes" THEN "fork"
    ELSE IF check = "checkDoS" THEN "dos"
    ELSE check

\* the errors of each rule
ErrorsOf(stage) ==
    CASE stage = "extra" -> {"extra-data too long"}
      [] stage = "migration" -> {"Invalid Migration"}
      [] stage = "ancestor" -> {"ErrUnknownAncestor"}
      [] stage = "time" -> {"time"}
      [] stage = "modifier" -> {"invalid modifier"}
      [] stage = "difficulty" -> {"invalid difficulty"}
      [] stage = "gas" -> {"invalid gasLimit", "invalid gasUsed",
                           "invalid gas limit bound", "invalid gas limit minimum"}
      [] stage = "number" -> {"ErrInvalidNumber"}
      [] stage = "seal" -> {"ErrMissingState", "errBlacklistedCoinbase", "errMissingSig",
                            "ErrInvalidSig", "ecrecover", "ErrUnknownAncestor", "evm",
                            "errInvalidSig", "PoS hash"}
      [] stage = "fork" -> {"fork hash"}
      [] stage = "dos" -> {"ErrDoSThrottle"}

\* the header of call l violates the rule, stated on the header, the chain
\* and the engine as they were when the call started
Violates(l, stage) ==
    LET h == l.inp
        found == KnownHash(h.parentHash)
                   /\ (~h.strict \/ HeaderByHash(h.parentHash).number = (h.number + Word - 1) % Word)
        parent == HeaderByHash(h.parentHash)
        limit == parent.gasLimit \div GasLimitBoundDivisor
    IN  CASE stage = "extra" -> h.extraLen > MaximumExtraDataSize /\ ~h.migration
          [] stage = "migration" -> h.migration /\ h.coinbase # Nuclear_MigrationContract
          [] stage = "ancestor" -> ~found /\ h.number # 0
          [] stage = "time" ->
                found /\ ~(parent.time + 1 <= h.time /\ h.time <= parent.time + 2)
          [] stage = "modifier" -> found /\ h.mixDigest # <<"modifier", h.time, parent.hash>>
          [] stage = "difficulty" -> found /\ h.difficulty # 1 + parent.number + h.time
          [] stage = "gas" ->
                found /\ \/ h.gasLimit > GasCap
                         \/ h.gasUsed > h.gasLimit /\ ~h.migration
                         \/ /\ ~h.migration /\ ~parent.migration
                            /\ ~(parent.gasLimit - limit < h.gasLimit
                                   /\ h.gasLimit < parent.gasLimit + limit)
                         \/ h.gasLimit < MinGasLimit
          [] stage = "number" -> found /\ h.number # parent.number + 1
          [] stage = "seal" -> found /\ l.seal /\ (VerifySeal(h, l.cg) # Nil \/ ~h.posHash)
          [] stage = "fork" -> found /\ ~h.forkHash
          [] stage = "dos" ->
                found /\ l.seal /\ ~h.inStore /\ (OldForkCondition(l) \/ ActiveOtherEntry(l))

ViolatedRanks(l) == { i \in 1 .. Len(CheckOrder) : Violates(l, CheckOrder[i]) }

EvaluatedRanks(l) == { Rank(StageOf(l.out.evaluated[i])) : i \in 1 .. Len(l.out.evaluated) }

\* C4: the checks of VerifyHeader are evaluated in the fixed order
\* extra-data, migration coinbase, ancestor, time, modifier, difficulty, gas,
\* number, seal checks, DoS guard; the error returned is that of the earliest
\* violated rule and no check after it is evaluated.
C4_CheckOrder ==
    last.called =>
        LET ev == last.out.evaluated
            violated == ViolatedRanks(last)
            first == CHOOSE i \in violated : \A j \in violated : i <= j
        IN  /\ \A i, j \in 1 .. Len(ev) :
                 i < j => Rank(StageOf(ev[i])) <= Rank(StageOf(ev[j]))
            /\ \A r \in 1 .. Rank("number") :
                 (\E q \in EvaluatedRanks(last) : r <= q) => r \in EvaluatedRanks(last)
            /\ IF violated = {}
               THEN last.out.err = Nil
               ELSE /\ last.out.err \in ErrorsOf(CheckOrder[first])
                    /\ \A q \in EvaluatedRanks(last) : q <= first
                    /\ first \in EvaluatedRanks(last)

\* C4 witness: a header that violates two rules was rejected.
C4_Witness ==
    /\ last.called
    /\ Cardinality(ViolatedRanks(last)) >= 2
    /\ last.out.err # Nil
    /\ Violates(last, "dos")

---------------------------------------------------------------------------
(* Concurrent callers of checkDoS on the shared engine.  Every access to   *)
(* e.knownStakes (LoadOrStore, Store, Delete, a visit of Range) is one     *)
(* atomic step; what lies between two of them is interleaved with the      *)
(* other callers and with the clock.                                       *)

Procs == 1 .. NProcs

\* the headers the concurrent callers verify: valid children of the chain's
\* headers, two blocks per parent
ConcHeaders == { [h EXCEPT !.nonce = n] : h \in BaseHeaders, n \in {0, 1} }

IdleLoc == [h |-> BaseHeader(HeaderByHash("P1")), now |-> 0, visited |-> {},
            victim |-> <<AddrA, "P1">>]

InitConc ==
    /\ EngineInit
    /\ AuxIdle
    /\ clock = 0
    /\ inp = BaseHeader(HeaderByHash("P1"))
    /\ sealFlag = TRUE
    /\ budget = MaxConcCalls
    /\ last = NoCall
    /\ pc = [p \in Procs |-> "idle"]
    /\ loc = [p \in Procs |-> IdleLoc]
    /\ accepted = {}
    /\ BatchIdle
    /\ FinIdle

ConcFrame == UNCHANGED <<callGas, xferGas, budget, seqVars, batchVars, finVars, auxVars>>

\* checkDoS is entered (dos.go:54-64): the first e.now() and the old-fork rule
ConcEnter(p) ==
    /\ pc[p] = "idle"
    /\ budget > 0
    /\ budget' = budget - 1
    /\ \E h \in ConcHeaders, head \in ChainHeaders :
         /\ loc' = [loc EXCEPT ![p] = [IdleLoc EXCEPT !.h = h]]
         /\ IF OldForkRejects(HeaderByHash(h.parentHash), head, clock)
            THEN pc' = [pc EXCEPT ![p] = "idle"]
            ELSE pc' = [pc EXCEPT ![p] = "now"]
    /\ UNCHANGED <<engineVars, clock, seqVars, accepted, batchVars, finVars, auxVars>>

\* now := e.now() (dos.go:69)
ConcNow(p) ==
    /\ pc[p] = "now"
    /\ loc' = [loc EXCEPT ![p].now = clock]
    /\ pc' = [pc EXCEPT ![p] = "loadOrStore"]
    /\ UNCHANGED <<engineVars, clock, accepted>>
    /\ ConcFrame

\* e.knownStakes.LoadOrStore(ksk, ksv) and the test of the entry it loaded
\* (dos.go:80-84)
ConcLoadOrStore(p) ==
    /\ pc[p] = "loadOrStore"
    /\ LET h == loc[p].h
           k == KnownStakeKey(h)
       IN  IF k \in DOMAIN knownStakes
           THEN /\ UNCHANGED knownStakes
                /\ IF ThrottleRejects(knownStakes, h, loc[p].now)
                   THEN pc' = [pc EXCEPT ![p] = "idle"]
                   ELSE pc' = [pc EXCEPT ![p] = "store"]
           ELSE /\ knownStakes' = Store(knownStakes, k, KnownStakeValue(h, loc[p].now))
                /\ pc' = [pc EXCEPT ![p] = "purgeTest"]
    /\ UNCHANGED <<nextKSPurge, clock, loc, accepted>>
    /\ ConcFrame

\* e.knownStakes.Store(ksk, ksv) (dos.go:86)
ConcStore(p) ==
    /\ pc[p] = "store"
    /\ knownStakes' = Store(knownStakes, KnownStakeKey(loc[p].h),
                            KnownStakeValue(loc[p].h, loc[p].now))
    /\ pc' = [pc EXCEPT ![p] = "purgeTest"]
    /\ UNCHANGED <<nextKSPurge, clock, loc, accepted>>
    /\ ConcFrame

\* the caller returns nil: the header is accepted
Accept(p) ==
    accepted' = accepted \cup
        { [key |-> KnownStakeKey(loc[p].h), block |-> Hash(loc[p].h), ts |-> loc[p].now] }

\* if e.nextKSPurge < now (dos.go:90)
ConcPurgeTest(p) ==
    /\ pc[p] = "purgeTest"
    /\ IF nextKSPurge < loc[p].now
       THEN /\ pc' = [pc EXCEPT ![p] = "purgeSet"]
            /\ UNCHANGED accepted
       ELSE /\ pc' = [pc EXCEPT ![p] = "idle"]
            /\ Accept(p)
    /\ UNCHANGED <<engineVars, clock, loc>>
    /\ ConcFrame

\* e.nextKSPurge = now + StakeThrottle (dos.go:91)
ConcPurgeSet(p) ==
    /\ pc[p] = "purgeSet"
    /\ nextKSPurge' = Add64(loc[p].now, StakeThrottle)
    /\ loc' = [loc EXCEPT ![p].visited = {}]
    /\ pc' = [pc EXCEPT ![p] = "range"]
    /\ UNCHANGED <<knownStakes, clock, accepted>>
    /\ ConcFrame

\* Range visits one entry it has not visited and tests it (dos.go:93-94);
\* with no entry left to visit the sweep, and the call, end.
ConcRange(p) ==
    /\ pc[p] = "range"
    /\ LET todo == (DOMAIN knownStakes) \ loc[p].visited
       IN  IF todo = {}
           THEN /\ pc' = [pc EXCEPT ![p] = "idle"]
                /\ Accept(p)
                /\ UNCHANGED loc
           ELSE /\ \E k \in todo :
                     /\ loc' = [loc EXCEPT ![p].visited = @ \cup {k}, ![p].victim = k]
                     /\ IF isActive(knownStakes[k], loc[p].now)
                        THEN pc' = [pc EXCEPT ![p] = "range"]
                        ELSE pc' = [pc EXCEPT ![p] = "delete"]
                /\ UNCHANGED accepted
    /\ UNCHANGED <<engineVars, clock>>
    /\ ConcFrame

\* e.knownStakes.Delete(k) (dos.go:95)
ConcDelete(p) ==
    /\ pc[p] = "delete"
    /\ knownStakes' = Delete(knownStakes, loc[p].victim)
    /\ pc' = [pc EXCEPT ![p] = "range"]
    /\ UNCHANGED <<nextKSPurge, clock, loc, accepted>>
    /\ ConcFrame

\* time passes
ConcTick ==
    /\ clock < MaxTick
    /\ clock' = clock + 1
    /\ UNCHANGED <<engineVars, concVars>>
    /\ ConcFrame

NextConc ==
    \/ \E p \in Procs :
         \/ ConcEnter(p) \/ ConcNow(p) \/ ConcLoadOrStore(p) \/ ConcStore(p)
         \/ ConcPurgeTest(p) \/ ConcPurgeSet(p) \/ ConcRange(p) \/ ConcDelete(p)
    \/ ConcTick

SpecConc == InitConc /\ [][NextConc]_vars

\* C2: any two headers checkDoS accepted under the same (coinbase,
\* parentHash) have equal block hashes or observation timestamps at least
\* StakeThrottle apart, under every interleaving of concurrent callers.
C2_AcceptedApart ==
    \A a, b \in accepted :
        a.key = b.key =>
            \/ a.block = b.block
            \/ a.ts - b.ts >= StakeThrottle
            \/ b.ts - a.ts >= StakeThrottle

---------------------------------------------------------------------------
(* VerifyHeaders: the background task and its caller.  abort is an         *)
(* unbuffered channel the caller closes; results and ready are buffered    *)
(* with room for len(headers) values.  A select with several ready cases   *)
(* takes any one of them.                                                  *)

\* the batches handed to VerifyHeaders are built from: a valid sealed block,
\* another block of the same proposer on the same parent, and an unsealed
\* header whose extra-data is too long
BatchItems ==
    LET h == BaseHeader(HeaderByHash("P1"))
    IN  { [header |-> h, seal |-> TRUE],
          [header |-> [h EXCEPT !.nonce = 1], seal |-> TRUE],
          [header |-> [h EXCEPT !.extraLen = MaximumExtraDataSize + 1], seal |-> FALSE] }

Batches == UNION { [1 .. n -> BatchItems] : n \in 1 .. MaxBatch }

\* case <-abort: receiving from a closed channel is ready
AbortCase_Never(closed) == FALSE

AbortCase(closed) == closed

\* case <-ready is taken only while a second token is buffered behind it
ReadyCase_NeedsTwo(tokens) == tokens > 1

\* case <-ready: a token is buffered
ReadyCase_Always(tokens) == TRUE

ReadyCase(tokens) == tokens > 0

\* results <- err on the buffered channel
Send_Front(queue, err) == <<err>> \o queue

Send(queue, err) == Append(queue, err)

\* headers whose verification the task has started
Started == Len(verified) + (IF task.pc = "verify" THEN 1 ELSE 0)

\* results the task has delivered to the results channel, oldest first
Delivered == received \o results

InitBatch ==
    /\ EngineInit
    /\ AuxIdle
    /\ ConcIdle
    /\ clock = 0
    /\ inp = BaseHeader(HeaderByHash("P1"))
    /\ sealFlag = TRUE
    /\ budget = 0
    /\ last = NoCall
    /\ \E b \in Batches :
         /\ headers = [k \in DOMAIN b |-> b[k].header]
         /\ seals = [k \in DOMAIN b |-> b[k].seal]
    /\ abort = FALSE
    /\ ready = 0
    /\ results = <<>>
    /\ task = [pc |-> "ready", i |-> 1, err |-> Nil]
    /\ received = <<>>
    /\ verified = <<>>
    /\ readySent = 0
    /\ atAbort = [started |-> 0, delivered |-> 0, ready |-> 0, readySent |-> 0]
    /\ FinIdle

BatchFrame == UNCHANGED <<budget, seqVars, concVars, headers, seals, finVars, auxVars>>

\* select { case <-abort: return; case <-ready: } (part_000:318-322)
TaskReady ==
    /\ task.pc = "ready"
    /\ \/ /\ AbortCase(abort)
          /\ task' = [task EXCEPT !.pc = "done"]
          /\ UNCHANGED ready
       \/ /\ ReadyCase(ready)
          /\ ready' = ready - 1
          /\ task' = [task EXCEPT !.pc = "verify"]
    /\ UNCHANGED <<engineVars, clock, abort, results, received, verified, readySent, atAbort>>
    /\ BatchFrame

\* err := e.VerifyHeader(chain, header, seals[i]) (part_000:324)
TaskVerify ==
    /\ task.pc = "verify"
    /\ \E now2 \in LaterInstants(clock) :
         LET out == VerifyHeader(headers[task.i], seals[task.i], callGas, clock, now2,
                                 knownStakes, nextKSPurge)
         IN  /\ knownStakes' = out.ks
             /\ nextKSPurge' = out.purge
             /\ clock' = now2
             /\ task' = [task EXCEPT !.pc = "send", !.err = out.err]
             /\ verified' = Append(verified,
                    [ i |-> task.i, header |-> headers[task.i], seal |-> seals[task.i],
                      cg |-> callGas, now1 |-> clock, now2 |-> now2,
                      ks |-> knownStakes, purge |-> nextKSPurge ])
    /\ UNCHANGED <<callGas, xferGas, abort, ready, results, received, readySent, atAbort>>
    /\ BatchFrame

\* select { case <-abort: return; case results <- err: } and the next
\* iteration of the loop (part_000:326-330, 315)
TaskSend ==
    /\ task.pc = "send"
    /\ \/ /\ AbortCase(abort)
          /\ task' = [task EXCEPT !.pc = "done"]
          /\ UNCHANGED results
       \/ /\ Len(results) < Len(headers)
          /\ results' = Send(results, task.err)
          /\ task' = [task EXCEPT !.i = task.i + 1,
                                  !.pc = IF task.i + 1 > Len(headers) THEN "done" ELSE "ready"]
    /\ UNCHANGED <<engineVars, clock, abort, ready, received, verified, readySent, atAbort>>
    /\ BatchFrame

\* the caller asks for one more header: ready <- true
CallerReady ==
    /\ readySent < Len(headers)
    /\ ready < Len(headers)
    /\ ready' = ready + 1
    /\ readySent' = readySent + 1
    /\ UNCHANGED <<engineVars, clock, abort, results, task, received, verified, atAbort>>
    /\ BatchFrame

\* the caller receives: <-results
CallerReceive ==
    /\ results # <<>>
    /\ received' = Append(received, Head(results))
    /\ results' = Tail(results)
    /\ UNCHANGED <<engineVars, clock, abort, ready, task, verified, readySent, atAbort>>
    /\ BatchFrame

\* the caller signals abort: close(abort)
CallerAbort ==
    /\ ~abort
    /\ abort' = TRUE
    /\ atAbort' = [started |-> Started, delivered |-> Len(Delivered),
                   ready |-> ready, readySent |-> readySent]
    /\ UNCHANGED <<engineVars, clock, ready, results, task, received, verified, readySent>>
    /\ BatchFrame

NextBatch ==
    \/ TaskReady \/ TaskVerify \/ TaskSend
    \/ CallerReady \/ CallerReceive \/ CallerAbort

SpecBatch == InitBatch /\ [][NextBatch]_vars

\* the Go scheduler runs a goroutine that can take a step
SpecBatchFair ==
    /\ InitBatch
    /\ [][NextBatch]_vars
    /\ WF_vars(TaskReady) /\ WF_vars(TaskVerify) /\ WF_vars(TaskSend)

\* the outcome of the k-th VerifyHeader call the task made
VerifiedErr(k) ==
    LET v == verified[k]
    IN  VerifyHeader(v.header, v.seal, v.cg, v.now1, v.now2, v.ks, v.purge).err

\* C5: the k-th value delivered on results is the outcome of
\* VerifyHeader(chain, headers[k], seals[k]); the task verifies the headers
\* one by one in input order, none skipped and none twice, and never more
\* than len(headers) values are delivered.
C5_ResultsInOrder ==
    /\ Len(Delivered) <= Len(headers)
    /\ Len(Delivered) <= Len(verified)
    /\ \A k \in 1 .. Len(verified) :
         /\ verified[k].i = k
         /\ k <= Len(headers)
         /\ verified[k].header = headers[k]
         /\ verified[k].seal = seals[k]
    /\ \A k \in 1 .. Len(Delivered) : Delivered[k] = VerifiedErr(k)

\* a batch of three with three different outcomes has been received in full
C5_Witness ==
    /\ Len(headers) = 3
    /\ Len(received) = 3
    /\ received[1] # received[2]
    /\ received[2] # received[3]
    /\ received[1] # received[3]

\* C6: the number of headers whose verification has started never exceeds
\* the number of ready tokens the caller has sent.
C6_GatedOnReady == Started <= readySent

\* the task has used up every token it was given and waits for the next one
C6_Witness ==
    /\ task.pc = "ready"
    /\ Started = readySent
    /\ Started = 2
    /\ Len(headers) = 3
    /\ ~abort

\* C7 as stated: once abort is closed the task starts no further header and
\* delivers no further result.
C7_NothingAfterAbort ==
    abort => Started = atAbort.started /\ Len(Delivered) = atAbort.delivered

\* C7: once abort is closed the task starts a further header only by taking
\* a ready token (pending at the close or sent after it), so with no token
\* it starts none, and the task ends without any further step of the caller.
C7_AbortEndsTask ==
    /\ [](abort => Started - atAbort.started
                     <= atAbort.ready + (readySent - atAbort.readySent))
    /\ (abort ~> task.pc = "done")

\* abort was closed with a token pending and room in results; the task has
\* ended with headers left unverified
C7_Witness ==
    /\ abort
    /\ atAbort.ready > 0
    /\ task.pc = "done"
    /\ Len(verified) < Len(headers)

---------------------------------------------------------------------------
(* Finalize.  A Go slice is a window on an array: txs[i:] and txs[:i]      *)
(* share the array of txs, and append writes into that array while the     *)
(* slice is shorter than its capacity.                                     *)

\* transactions: a normal one, the reward and the drain transaction the
\* state derives, and a consensus transaction no state derives
TxNormal == [hash |-> "normal", consensus |-> FALSE]
TxReward == [hash |-> "reward", consensus |-> TRUE]
TxDrain == [hash |-> "drain", consensus |-> TRUE]
TxForged == [hash |-> "forged", consensus |-> TRUE]

Transactions == {TxNormal, TxReward, TxDrain, TxForged}

TxLists == UNION { [1 .. n -> Transactions] : n \in 0 .. MaxTxs }

TxHashes(txs) == [i \in DOMAIN txs |-> txs[i].hash]

\* what consensusGasLimits() of the spork registry returns in a state
SporkOutputs ==
    { [callGas |-> InitialCallGas, xferGas |-> InitialXferGas + 1],
      [callGas |-> CallCost - 1, xferGas |-> InitialXferGas + 1] }

\* types.CalcUncleHash(nil)
uncleHash == "uncleHash"

FinalizeSteps == {"gasLimits", "rewards", "masternodes", "blacklists", "drainable", "migration"}

\* the states Finalize is run against: what the registry returns, the
\* transactions the reward and drain steps derive, the step that fails
States ==
    { [spork |-> o, rewards |-> r, drains |-> d, failAt |-> f] :
        o \in SporkOutputs, r \in {<<>>, <<TxReward>>}, d \in {<<>>, <<TxDrain>>},
        f \in FinalizeSteps \cup {"none"} }

\* the slice txs[:len] of the caller's array: orig is that array (ctxs points
\* into it), cur the array the slice points into now
NewSlice(arr, len) == [orig |-> arr, cur |-> arr, len |-> len, shared |-> TRUE]

\* append(s, tx)
append(s, tx) ==
    IF s.len < Len(s.cur)
    THEN [s EXCEPT !.cur = [s.cur EXCEPT ![s.len + 1] = tx],
                   !.orig = IF s.shared THEN [s.orig EXCEPT ![s.len + 1] = tx] ELSE s.orig,
                   !.len = s.len + 1]
    ELSE [s EXCEPT !.cur = Append(SubSeq(s.cur, 1, s.len), tx),
                   !.len = s.len + 1,
                   !.shared = FALSE]

RECURSIVE appendAll(_, _)
appendAll(s, txs) ==
    IF txs = <<>> THEN s ELSE appendAll(append(s, Head(txs)), Tail(txs))

\* the loop of Finalize: the index (from 1) of the last transaction that is
\* not a consensus one, 0 if there is none
\* scanning from the head instead
LastNonConsensus_FromHead(txs, i) ==
    IF \A j \in 1 .. i : txs[j].consensus THEN 0
    ELSE CHOOSE j \in 1 .. i : ~txs[j].consensus /\ \A l \in 1 .. j - 1 : txs[l].consensus

RECURSIVE LastNonConsensus(_, _)
LastNonConsensus(txs, i) ==
    IF i = 0 THEN 0
    ELSE IF ~txs[i].consensus THEN i
    ELSE LastNonConsensus(txs, i - 1)

\* processConsensusGasLimits
processConsensusGasLimits(st, cg, xg) ==
    LET res == ApplyMessage(cg, CallCost, st.spork)
    IN  IF res.err # Nil THEN [err |-> res.err, callGas |-> cg, xferGas |-> xg]
        ELSE IF st.failAt = "gasLimits" THEN [err |-> "unpack", callGas |-> cg, xferGas |-> xg]
        ELSE [err |-> Nil, callGas |-> res.out.callGas, xferGas |-> res.out.xferGas]

\* the reward transactions are appended twice
processBlockRewards_Twice(st, s) ==
    IF st.failAt = "rewards" THEN [err |-> "rewards", s |-> s]
    ELSE [err |-> Nil, s |-> appendAll(appendAll(s, st.rewards), st.rewards)]

processBlockRewards(st, s) ==
    IF st.failAt = "rewards" THEN [err |-> "rewards", s |-> s]
    ELSE [err |-> Nil, s |-> appendAll(s, st.rewards)]

processMasternodes(st) == IF st.failAt = "masternodes" THEN "masternodes" ELSE Nil

processBlacklists(st) == IF st.failAt = "blacklists" THEN "blacklists" ELSE Nil

processDrainable(st, s) ==
    IF st.failAt = "drainable" THEN [err |-> "drainable", s |-> s]
    ELSE [err |-> Nil, s |-> appendAll(s, st.drains)]

finalizeMigration(st) == IF st.failAt = "migration" THEN "migration" ELSE Nil

\* state.IntermediateRoot after the steps that were applied
IntermediateRoot(st, applied, cg, xg) ==
    [state |-> st, applied |-> applied, callGas |-> cg, xferGas |-> xg]

\* govFinalize step by step: c is what the steps so far have left (the
\* txs slice, err, the engine's gas limits, the steps entered)
AfterGasLimits(st, c) ==
    LET gl == processConsensusGasLimits(st, c.callGas, c.xferGas)
    IN  [c EXCEPT !.err = gl.err, !.callGas = gl.callGas, !.xferGas = gl.xferGas,
                  !.evaluated = Append(@, "gasLimits")]

AfterRewards(st, c) ==
    IF c.err # Nil THEN c
    ELSE LET r == processBlockRewards(st, c.s)
         IN  [c EXCEPT !.err = r.err, !.s = r.s, !.evaluated = Append(@, "rewards")]

AfterMasternodes(st, c) ==
    IF c.err # Nil THEN c
    ELSE [c EXCEPT !.err = processMasternodes(st), !.evaluated = Append(@, "masternodes")]

AfterBlacklists(st, c) ==
    IF c.err # Nil THEN c
    ELSE [c EXCEPT !.err = processBlacklists(st), !.evaluated = Append(@, "blacklists")]

AfterDrainable(st, c) ==
    IF c.err # Nil THEN c
    ELSE LET r == processDrainable(st, c.s)
         IN  [c EXCEPT !.err = r.err, !.s = r.s, !.evaluated = Append(@, "drainable")]

AfterMigration(st, c) ==
    IF c.err # Nil THEN c
    ELSE [c EXCEPT !.err = finalizeMigration(st), !.evaluated = Append(@, "migration")]

\* header.Root = state.IntermediateRoot(...), whatever err is
\* the root is computed before the steps are applied
WithRoot_Before(st, c) ==
    [ s |-> c.s, err |-> c.err, callGas |-> c.callGas, xferGas |-> c.xferGas,
      evaluated |-> c.evaluated,
      root |-> IntermediateRoot(st, <<>>, c.callGas, c.xferGas) ]

WithRoot(st, c) ==
    [ s |-> c.s, err |-> c.err, callGas |-> c.callGas, xferGas |-> c.xferGas,
      evaluated |-> c.evaluated,
      root |-> IntermediateRoot(st,
                   IF c.err = Nil THEN c.evaluated
                   ELSE SubSeq(c.evaluated, 1, Len(c.evaluated) - 1),
                   c.callGas, c.xferGas) ]

govFinalize(st, s, cg, xg) ==
    WithRoot(st,
      AfterMigration(st,
        AfterDrainable(st,
          AfterBlacklists(st,
            AfterMasternodes(st,
              AfterRewards(st,
                AfterGasLimits(st,
                  [s |-> s, err |-> Nil, callGas |-> cg, xferGas |-> xg,
                   evaluated |-> <<>>])))))))

finalize(hdr, st, s, cg, xg) ==
    IF hdr.coinbase # ZeroAddress
    THEN govFinalize(st, s, cg, xg)
    ELSE [ s |-> s, err |-> Nil, callGas |-> cg, xferGas |-> xg, evaluated |-> <<>>,
           root |-> hdr.root ]

Finalize(hdr, st, txs, cg, xg) ==
    LET i == LastNonConsensus(txs, Len(txs))
        prefix == SubSeq(txs, 1, i)
        fz == finalize(hdr, st, NewSlice(txs, i), cg, xg)
        blockTxs == SubSeq(fz.s.cur, 1, fz.s.len)
        ntxs == SubSeq(blockTxs, Len(prefix) + 1, Len(blockTxs))
        ctxs == SubSeq(fz.s.orig, i + 1, Len(txs))
        err == IF fz.err # Nil THEN fz.err
               ELSE IF Len(ntxs) # Len(ctxs) THEN "ErrInvalidConsensusTx"
               ELSE IF \E j \in 1 .. Len(ntxs) : ntxs[j].hash # ctxs[j].hash
                    THEN "ErrInvalidConsensusTx"
               ELSE Nil
    IN  [ called |-> TRUE, err |-> err, stepErr |-> fz.err, hasBlock |-> err = Nil,
          txs |-> IF err = Nil THEN blockTxs ELSE <<>>,
          root |-> fz.root, uncleHash |-> uncleHash,
          receipts |-> IF err = Nil THEN Len(ntxs) ELSE 0,
          input |-> txs, prefix |-> prefix, ctxs |-> SubSeq(txs, i + 1, Len(txs)),
          derived |-> ntxs, evaluated |-> fz.evaluated,
          callGas |-> fz.callGas, xferGas |-> fz.xferGas ]

InitFin ==
    /\ EngineInit
    /\ AuxIdle
    /\ ConcIdle
    /\ BatchIdle
    /\ clock = 0
    /\ inp = BaseHeader(HeaderByHash("P1"))
    /\ sealFlag = TRUE
    /\ budget = 0
    /\ last = NoCall
    /\ \E c \in {ZeroAddress, AddrA}, st \in States, txs \in TxLists :
         fin = [coinbase |-> c, root |-> <<>>, uncleHash |-> Nil, state |-> st, txs |-> txs]
    /\ run1 = NoRun
    /\ run2 = NoRun

FinFrame == UNCHANGED <<knownStakes, nextKSPurge, clock, budget, seqVars, concVars, batchVars, auxVars>>

\* Finalize(chain, header, state, txs, uncles, receipts)
DoFinalize ==
    /\ ~run1.called
    /\ LET out == Finalize(fin, fin.state, fin.txs, callGas, xferGas)
       IN  /\ run1' = out
           /\ callGas' = out.callGas
           /\ xferGas' = out.xferGas
           /\ fin' = [fin EXCEPT !.root = out.root, !.uncleHash = out.uncleHash]
    /\ UNCHANGED run2
    /\ FinFrame

\* Finalize once more on the same engine, with the transactions of the block
\* just produced, the same header and a state equal to the first one
DoFinalizeAgain ==
    /\ run1.called
    /\ run1.hasBlock
    /\ ~run2.called
    /\ LET out == Finalize(fin, fin.state, run1.txs, callGas, xferGas)
       IN  /\ run2' = out
           /\ callGas' = out.callGas
           /\ xferGas' = out.xferGas
           /\ fin' = [fin EXCEPT !.root = out.root, !.uncleHash = out.uncleHash]
    /\ UNCHANGED run1
    /\ FinFrame

NextFin == DoFinalize \/ DoFinalizeAgain

SpecFin == InitFin /\ [][NextFin]_vars

\* the two Finalize calls of a behaviour
Runs == { r \in {run1, run2} : r.called }

\* C8: when the steps of finalisation succeed and the transactions they
\* derived differ from the split-off ctxs in count or in a hash, Finalize
\* returns ErrInvalidConsensusTx and no block; when Finalize succeeds the
\* hashes of the block's transactions are those of the input txs.
C8_CrossCheck ==
    \A r \in Runs :
        /\ (r.stepErr = Nil /\ TxHashes(r.derived) # TxHashes(r.ctxs))
              => (r.err = "ErrInvalidConsensusTx" /\ ~r.hasBlock)
        /\ r.err = Nil => TxHashes(r.txs) = TxHashes(r.input)

\* C9: the split of txs is the maximal consensus suffix.
C9_MaximalSuffix ==
    \A r \in Runs :
        /\ r.prefix \o r.ctxs = r.input
        /\ \A j \in 1 .. Len(r.ctxs) : r.ctxs[j].consensus
        /\ r.prefix # <<>> => ~r.prefix[Len(r.prefix)].consensus

\* a consensus transaction ahead of a normal one stays in the prefix
C9_Witness ==
    /\ run1.called
    /\ run1.input = <<TxReward, TxNormal, TxDrain>>
    /\ run1.prefix = <<TxReward, TxNormal>>
    /\ run1.ctxs = <<TxDrain>>

\* C10: Finalize on the transactions of a block a successful Finalize
\* produced, on the same engine, header and initial state, succeeds and
\* yields the same block.
C10_RoundTrip ==
    run2.called =>
        /\ run2.err = Nil
        /\ run2.hasBlock
        /\ run2.txs = run1.txs
        /\ run2.root = run1.root
        /\ run2.uncleHash = run1.uncleHash
        /\ run2.receipts = run1.receipts

---------------------------------------------------------------------------
(* The EVM invoker: the three contract reads of the engine                 *)
(* (consensusGasLimits, signerAddress, enumerateActive), statement by      *)
(* statement.  The state database is its journal of writes: Snapshot       *)
(* returns the journal's length, RevertToSnapshot cuts the journal back.   *)

ContractReads == {"consensusGasLimits", "signerAddress", "enumerateActive"}

\* nothing but VerifyHeader's own variables is in use
SeqIdle ==
    /\ clock = 0
    /\ inp = BaseHeader(HeaderByHash("P1"))
    /\ sealFlag = TRUE
    /\ budget = 0
    /\ last = NoCall

Snapshot(journal) == Len(journal)

RevertToSnapshot_Keep(journal, id) == journal

RevertToSnapshot(journal, id) == SubSeq(journal, 1, id)

\* what the called contract writes when it runs to its end
ContractWrites == { [w \in 1 .. n |-> <<"contract", w>>] : n \in 0 .. MaxWrites }

\* what core.ApplyMessage writes: the sender's nonce and gas on every call,
\* and the contract's writes when the call succeeds (a failed call is
\* reverted inside the EVM, an error precedes the call)
MessageEffects(outcome, writes) ==
    <<<<"message", outcome>>>> \o (IF outcome = "ok" THEN writes ELSE <<>>)

InitEvm ==
    /\ EngineInit
    /\ SeqIdle
    /\ ConcIdle
    /\ BatchIdle
    /\ FinIdle
    /\ SealerOff
    /\ ExtraOff
    /\ \E read \in ContractReads, packOk \in BOOLEAN, unpackOk \in BOOLEAN,
          outcome \in {"ok", "failed", "err"}, writes \in ContractWrites,
          journal \in {<<>>, <<<<"block", 1>>>>} :
         evm = [ pc |-> "pack", read |-> read, packOk |-> packOk, unpackOk |-> unpackOk,
                 outcome |-> outcome, writes |-> writes, journal |-> journal,
                 before |-> journal, snaps |-> <<>>, rev_id |-> 0, err |-> Nil ]

EvmFrame ==
    UNCHANGED <<engineVars, clock, budget, seqVars, concVars, batchVars, finVars, sealer,
                extraVars>>

\* abi.Pack(...): an error returns before any snapshot is taken
EvmPack ==
    /\ evm.pc = "pack"
    /\ evm' = IF evm.packOk THEN [evm EXCEPT !.pc = "snapshot"]
              ELSE [evm EXCEPT !.pc = "returned", !.err = "pack"]
    /\ EvmFrame

\* rev_id := state.Snapshot()
EvmSnapshot ==
    /\ evm.pc = "snapshot"
    /\ evm' = [evm EXCEPT !.pc = "apply", !.rev_id = Snapshot(evm.journal),
                          !.snaps = Append(@, Snapshot(evm.journal))]
    /\ EvmFrame

\* output, _, _, err := core.ApplyMessage(evm, msg, &gp)
EvmApply ==
    /\ evm.pc = "apply"
    /\ evm' = [evm EXCEPT !.pc = "revert",
                          !.journal = @ \o MessageEffects(evm.outcome, evm.writes),
                          !.err = IF evm.outcome = "err" THEN "evm" ELSE Nil]
    /\ EvmFrame

\* state.RevertToSnapshot(rev_id)
EvmRevert ==
    /\ evm.pc = "revert"
    /\ evm' = [evm EXCEPT !.pc = "check",
                          !.journal = RevertToSnapshot(@, evm.rev_id),
                          !.snaps = SelectSeq(@, LAMBDA id : id < evm.rev_id)]
    /\ EvmFrame

\* if err != nil { return err }
EvmCheck ==
    /\ evm.pc = "check"
    /\ evm' = IF evm.err # Nil THEN [evm EXCEPT !.pc = "returned"]
              ELSE [evm EXCEPT !.pc = "unpack"]
    /\ EvmFrame

\* abi.Unpack(..., output): a failed call has left no output to unpack
EvmUnpack ==
    /\ evm.pc = "unpack"
    /\ evm' = IF ~evm.unpackOk \/ evm.outcome = "failed"
              THEN [evm EXCEPT !.pc = "returned", !.err = "unpack"]
              ELSE IF evm.read = "enumerateActive"
              THEN [evm EXCEPT !.pc = "store"]
              ELSE [evm EXCEPT !.pc = "returned"]
    /\ EvmFrame

\* processMasternodes writes the list it has read into Nuclear_MasternodeList
EvmStore ==
    /\ evm.pc = "store"
    /\ evm' = [evm EXCEPT !.pc = "returned",
                          !.journal = Append(@, <<"engine", "masternodes">>)]
    /\ EvmFrame

NextEvm ==
    \/ EvmPack \/ EvmSnapshot \/ EvmApply \/ EvmRevert
    \/ EvmCheck \/ EvmUnpack \/ EvmStore

SpecEvm == InitEvm /\ [][NextEvm]_vars

\* C11: once a contract read has passed its call, on every return path, no
\* snapshot is left open and the state holds nothing the call wrote: it is
\* the state before the read (plus, in processMasternodes, the list the
\* engine itself stores after a successful read).
C11_ReadsRevert ==
    evm.pc \in {"check", "unpack", "store", "returned"} =>
        /\ evm.snaps = <<>>
        /\ evm.journal =
             IF evm.pc = "returned" /\ evm.read = "enumerateActive" /\ evm.err = Nil
             THEN Append(evm.before, <<"engine", "masternodes">>)
             ELSE evm.before

\* a read whose contract wrote to a non-empty state has returned successfully
C11_Witness ==
    /\ evm.pc = "returned"
    /\ evm.read = "signerAddress"
    /\ evm.outcome = "ok"
    /\ evm.err = Nil
    /\ Len(evm.writes) = MaxWrites
    /\ evm.before # <<>>
    /\ evm.journal = evm.before

---------------------------------------------------------------------------
(* VerifySeal called on its own, on an engine whose gas limits a           *)
(* finalisation may have replaced.                                         *)

\* chain.CalculateBlockState gives the state of the parent block: a chain
\* that has the state of a block has its header
ChainConsistent(h) ==
    h.parentState => HasHeader(h.strict, h.parentHash, Sub64(h.number, 1))

SealHeaders == { h \in Headers : ChainConsistent(h) }

InitVS ==
    /\ EngineInit
    /\ AuxIdle
    /\ ConcIdle
    /\ BatchIdle
    /\ FinIdle
    /\ clock = 0
    /\ inp \in SealHeaders
    /\ sealFlag = TRUE
    /\ budget = 1
    /\ last = NoCall

\* e.VerifySeal(chain, header)
DoVerifySeal ==
    /\ budget > 0
    /\ budget' = budget - 1
    /\ last' = [NoCall EXCEPT !.called = TRUE, !.inp = inp, !.cg = callGas,
                              !.out = Outcome(VerifySeal(inp, callGas), <<"VerifySeal">>,
                                              knownStakes, nextKSPurge)]
    /\ UNCHANGED <<engineVars, clock, inp, sealFlag, concVars, batchVars, finVars, auxVars>>

\* a finalisation has run processConsensusGasLimits on the engine
DoGasLimits ==
    /\ ~last.called
    /\ callGas = InitialCallGas /\ xferGas = InitialXferGas
    /\ \E o \in SporkOutputs :
         LET gl == processConsensusGasLimits([spork |-> o, failAt |-> "none"], callGas, xferGas)
         IN  /\ gl.err = Nil
             /\ callGas' = gl.callGas
             /\ xferGas' = gl.xferGas
    /\ UNCHANGED <<knownStakes, nextKSPurge, clock, budget, seqVars, concVars, batchVars,
                   finVars, auxVars>>

NextVS == DoVerifySeal \/ DoGasLimits

SpecVS == InitVS /\ [][NextVS]_vars

\* the signature of the header is well formed and an address is recovered
SealRecovered(h) ==
    /\ h.parentState
    /\ ~h.blacklisted
    /\ h.sigLen = sealLen
    /\ h.sigValues
    /\ h.ecrecoverOk

\* signerAddress() of the coinbase contract returns the recovered address
DelegatedTo(h, cg) ==
    /\ h.hasCode
    /\ cg >= CallCost
    /\ h.dposSigner = h.recovered

\* C12: VerifySeal returns nil exactly when the parent state exists, the
\* coinbase is not blacklisted, the signature is 65 bytes with valid
\* (r,s,v), and the recovered address is the coinbase or the address that
\* signerAddress() of a coinbase with code returns.
C12_SealIff ==
    last.called =>
        (last.out.err = Nil <=>
            /\ SealRecovered(last.inp)
            /\ \/ last.inp.recovered = last.inp.coinbase
               \/ DelegatedTo(last.inp, last.cg))

\* a seal signed by the delegated signer of a contract coinbase is accepted
C12_Witness ==
    /\ last.called
    /\ last.out.err = Nil
    /\ last.inp.recovered # last.inp.coinbase
    /\ DelegatedTo(last.inp, last.cg)

\* C13: the rejections of VerifySeal come in the order: parent state absent
\* (ErrMissingState), blacklisted coinbase (errBlacklistedCoinbase),
\* signature not 65 bytes (errMissingSig), invalid (r,s,v) (ErrInvalidSig),
\* recovered address other than a coinbase without code (errInvalidSig).
C13_SealRejections ==
    last.called =>
        LET h == last.inp
            err == last.out.err
        IN  IF ~h.parentState THEN err = "ErrMissingState"
            ELSE IF h.blacklisted THEN err = "errBlacklistedCoinbase"
            ELSE IF h.sigLen # sealLen THEN err = "errMissingSig"
            ELSE IF ~h.sigValues THEN err = "ErrInvalidSig"
            ELSE (h.ecrecoverOk /\ h.recovered # h.coinbase /\ ~h.hasCode)
                     => err = "errInvalidSig"

\* a header without parent state and with a short signature is rejected for
\* the missing state
C13_Witness ==
    /\ last.called
    /\ ~last.inp.parentState
    /\ last.inp.sigLen # sealLen
    /\ last.out.err = "ErrMissingState"

---------------------------------------------------------------------------
(* What VerifyHeader has established of a header it accepted.              *)

\* the last VerifyHeader call found the parent and returned nil
AcceptedWithParent(l) ==
    /\ l.called
    /\ l.out.err = Nil
    /\ HasHeader(l.inp.strict, l.inp.parentHash, Sub64(l.inp.number, 1))

AbsDiff(a, b) == IF a >= b THEN a - b ELSE b - a

WithinGasBound(h, parent) ==
    AbsDiff(h.gasLimit, parent.gasLimit) < parent.gasLimit \div GasLimitBoundDivisor

\* C14 as stated: every accepted header that is not a migration block and
\* whose parent is present keeps its gas limit within the bound, whatever
\* kind of block the parent is.
C14_GasBound ==
    (AcceptedWithParent(last) /\ ~last.inp.migration)
        => WithinGasBound(last.inp, HeaderByHash(last.inp.parentHash))

\* C14: every accepted header that is not a migration block and whose parent
\* is present and is not a migration block either keeps its gas limit within
\* the bound.
C14_GasBoundNormalParent ==
    (AcceptedWithParent(last) /\ ~last.inp.migration
        /\ ~HeaderByHash(last.inp.parentHash).migration)
        => WithinGasBound(last.inp, HeaderByHash(last.inp.parentHash))

\* a child of a normal block is accepted with a gas limit that differs from
\* its parent's
C14_Witness ==
    /\ AcceptedWithParent(last)
    /\ ~last.inp.migration
    /\ ~HeaderByHash(last.inp.parentHash).migration
    /\ last.inp.gasLimit # HeaderByHash(last.inp.parentHash).gasLimit

\* C15: every accepted header whose parent is present has Number =
\* parent.Number + 1, the modifier and the difficulty computed from its time
\* and its parent, MinGasLimit <= GasLimit <= 2^63-1 (migration blocks
\* included) and, unless it is a migration block, GasUsed <= GasLimit.
C15_AcceptedHeader ==
    AcceptedWithParent(last) =>
        LET h == last.inp
            parent == HeaderByHash(h.parentHash)
        IN  /\ h.number = parent.number + 1
            /\ h.mixDigest = CalcPoSModifier(h.time, parent)
            /\ h.difficulty = CalcPoSDifficulty(h.time, parent)
            /\ MinGasLimit <= h.gasLimit
            /\ h.gasLimit <= GasCap
            /\ ~h.migration => h.gasUsed <= h.gasLimit

\* a migration block is accepted
C15_Witness ==
    /\ AcceptedWithParent(last)
    /\ last.inp.migration
    /\ last.inp.gasLimit >= MinGasLimit

\* the engine state a call was given is the engine state it left
EngineUntouched(l) == l.out.ks = l.ks /\ l.out.purge = l.purge

\* C16: the static rejections come first and depend on the header alone: a
\* non-migration header with too long an extra-data is rejected with
\* "extra-data too long", a migration header never is, and a migration
\* header whose coinbase is not the migration contract is rejected with
\* "Invalid Migration"; no chain lookup precedes them.
C16_StaticRejections ==
    last.called =>
        LET h == last.inp
        IN  /\ (h.extraLen > MaximumExtraDataSize /\ ~h.migration) =>
                  /\ last.out.err = "extra-data too long"
                  /\ last.out.evaluated = <<"extra">>
                  /\ EngineUntouched(last)
            /\ h.migration => last.out.err # "extra-data too long"
            /\ (h.migration /\ h.coinbase # Nuclear_MigrationContract) =>
                  /\ last.out.err = "Invalid Migration"
                  /\ last.out.evaluated = <<"extra", "migration">>
                  /\ EngineUntouched(last)

\* a header with too long an extra-data and an unknown parent, verified
\* with the seal flag set, is rejected for its extra-data
C16_Witness ==
    /\ last.called
    /\ last.seal
    /\ last.inp.extraLen > MaximumExtraDataSize
    /\ ~KnownHash(last.inp.parentHash)
    /\ last.out.err = "extra-data too long"

\* C17: when the parent lookup finds no header, VerifyHeader returns nil for
\* block 0 and ErrUnknownAncestor otherwise; none of the later checks is
\* evaluated and the engine state is left as it was.
C17_AncestorRule ==
    (last.called /\ Reached(last, "ancestor")
        /\ ~HasHeader(last.inp.strict, last.inp.parentHash, Sub64(last.inp.number, 1)))
        => /\ last.out.err = IF last.inp.number = 0 THEN Nil ELSE "ErrUnknownAncestor"
           /\ last.out.evaluated = <<"extra", "migration", "ancestor">>
           /\ EngineUntouched(last)

\* a header numbered 0, whose parent is not found, is accepted with the seal
\* flag set although its seal would be rejected
C17_Witness ==
    /\ last.called
    /\ last.seal
    /\ last.inp.number = 0
    /\ ~last.inp.posHash
    /\ last.out.err = Nil
    /\ last.out.evaluated = <<"extra", "migration", "ancestor">>

\* checks 1-8 of the last call were passed
PassedNumber(l) ==
    /\ l.called
    /\ Reached(l, "number")
    /\ l.out.err # "ErrInvalidNumber"

\* C18 as stated: VerifySeal, verifyPoSHash and VerifyForkHashes run only
\* when seal is true; with seal = false none of them is evaluated and a
\* header that passes checks 1-8 is accepted.
C18_ForkHashSealGated ==
    (last.called /\ ~last.seal) =>
        /\ ~Reached(last, "VerifySeal")
        /\ ~Reached(last, "verifyPoSHash")
        /\ ~Reached(last, "VerifyForkHashes")
        /\ PassedNumber(last) => last.out.err = Nil

\* C18: VerifySeal and verifyPoSHash run, in that order, only when seal is
\* true; VerifyForkHashes runs after them whatever seal is: with seal =
\* false a header that passes checks 1-8 is accepted exactly when it passes
\* the fork-hash check.
C18_SealGatedSteps ==
    last.called =>
        /\ (Reached(last, "VerifySeal") \/ Reached(last, "verifyPoSHash")) => last.seal
        /\ Reached(last, "verifyPoSHash") => Reached(last, "VerifySeal")
        /\ Reached(last, "VerifyForkHashes") =>
              (last.seal => Reached(last, "verifyPoSHash"))
        /\ (~last.seal /\ PassedNumber(last)) =>
              /\ Reached(last, "VerifyForkHashes")
              /\ last.out.err = Nil <=> last.inp.forkHash

\* an unsealed check rejects a header for its fork hash
C18_Witness ==
    /\ last.called
    /\ ~last.seal
    /\ PassedNumber(last)
    /\ ~last.inp.forkHash
    /\ ~last.inp.posHash
    /\ last.out.err = "fork hash"

\* C19: with seal false, or with the header already in the store,
\* VerifyHeader does not call checkDoS, does not return ErrDoSThrottle and
\* leaves knownStakes and nextKSPurge as they were; verifying a stored
\* header again gives the verdict it gave before.
C19_DoSSkipped ==
    (last.called /\ (~last.seal \/ last.inp.inStore)) =>
        /\ ~Reached(last, "checkDoS")
        /\ last.out.err # "ErrDoSThrottle"
        /\ EngineUntouched(last)
        /\ (last.before.called /\ last.before.inp = last.inp)
              => last.before.err = last.out.err

\* a stored header has been verified twice with its seal and accepted twice
C19_Witness ==
    /\ last.called
    /\ last.seal
    /\ last.inp.inStore
    /\ last.before.called
    /\ last.before.inp = last.inp
    /\ last.out.err = Nil
    /\ last.before.err = Nil
    /\ Reached(last, "VerifyForkHashes")

---------------------------------------------------------------------------
(* The sealer: a miner that asks SealHash for the hash of a candidate      *)
(* block, hands the block to Seal, and asks SealHash again for the hash of *)
(* the block Seal publishes.  The root of a list of transactions is        *)
(* modelled by the list of their hashes.                                   *)

MaxSeals == 9

\* the Seal calls of a run that depart from the usual one: a candidate with
\* number 0 or with the transactions of a published block, a failure of
\* mine, of recreateBlock or of the signer, a result nobody reads, a block
\* without consensus transactions
MaxVariations == 2

\* lru.New(8)
CacheSize == 8

DeriveSha(txs) == TxHashes(txs)

CacheIndex(cache, key) ==
    IF \E i \in 1 .. Len(cache) : cache[i].key = key
    THEN CHOOSE i \in 1 .. Len(cache) : cache[i].key = key
    ELSE 0

Without(cache, i) == SubSeq(cache, 1, i - 1) \o SubSeq(cache, i + 1, Len(cache))

\* txhashMap.Get(key): a hit makes the entry the most recently used one
lruGet(cache, key) ==
    LET i == CacheIndex(cache, key)
    IN  IF i = 0 THEN [ok |-> FALSE, item |-> Nil, cache |-> cache]
        ELSE [ok |-> TRUE, item |-> cache[i].item,
              cache |-> <<cache[i]>> \o Without(cache, i)]

\* txhashMap.Add(key, item): the entry becomes the most recently used one;
\* a new key beyond the capacity drops the least recently used entry
lruAdd(cache, key, item) ==
    LET i == CacheIndex(cache, key)
        entry == [key |-> key, item |-> item]
    IN  IF i # 0 THEN <<entry>> \o Without(cache, i)
        ELSE IF Len(cache) + 1 > CacheSize
             THEN <<entry>> \o SubSeq(cache, 1, CacheSize - 1)
             ELSE <<entry>> \o cache

\* SealHash(header): the fields it encodes, and the cache after its lookup
SealHash(header, cache) ==
    LET got == lruGet(cache, header.txHash)
        txhash == IF got.ok THEN got.item ELSE header.txHash
    IN  [ hash |-> [ parentHash |-> header.parentHash,
                     uncleHash |-> header.uncleHash,
                     txhash |-> txhash,
                     number |-> header.number,
                     gasLimit |-> header.gasLimit ],
          cache |-> got.cache ]

\* the states recreateBlock computes against
SealStates ==
    { st \in States : /\ st.spork.callGas = InitialCallGas
                      /\ st.drains = <<>>
                      /\ st.failAt \in {"none", "rewards"} }

\* the state of a block that pays its reward
UsualState ==
    CHOOSE st \in SealStates : st.rewards = <<TxReward>> /\ st.failAt = "none"

\* recreateBlock(chain, header, txs): the transactions are applied again and
\* the block is finalized with the header mine() has filled in
\* hasState: CalculateBlockState returns a state.  The test that follows it
\* reads err, which is nil there, so a nil state goes on to the first use
\* of the state (Prepare for the first transaction, or Snapshot in
\* govFinalize when there is none), where the task panics.
recreateBlock(header, st, txs, cg, xg, hasState) ==
    IF ~hasState
    THEN [ panic |-> txs # <<>> \/ header.coinbase # ZeroAddress,
           err |-> Nil, applied |-> 0, callGas |-> cg, xferGas |-> xg,
           block |-> [ header |-> [header EXCEPT !.uncleHash = uncleHash,
                                                 !.txHash = DeriveSha(txs)],
                       txs |-> txs ] ]
    ELSE
    LET fz == finalize(header, st, NewSlice(txs, Len(txs)), cg, xg)
        btxs == SubSeq(fz.s.cur, 1, fz.s.len)
    IN  [ panic |-> FALSE, err |-> fz.err, applied |-> Len(txs),
          callGas |-> fz.callGas, xferGas |-> fz.xferGas,
          block |-> [ header |-> [header EXCEPT !.uncleHash = uncleHash,
                                                !.txHash = DeriveSha(btxs)],
                      txs |-> btxs ] ]

\* select { case results <- value: default: }: the value is sent when the
\* channel can accept it (read) and dropped otherwise; the task goes on
Offer(value, read) ==
    IF read THEN [sends |-> 1, received |-> value, ended |-> TRUE]
            ELSE [sends |-> 0, received |-> "none", ended |-> TRUE]

\* signerFn returns an error: the task logs it and returns
SignerFailure(read) ==
    [offered |-> "none", sends |-> 0, received |-> "none", ended |-> TRUE]

\* what Seal returns.  err is the named result of Seal and the task assigns
\* the error of signerFn to it while Seal executes `return nil`: when the
\* assignment lands between the store of nil and the return (raced), Seal
\* returns the signer's error
SealReturn(signErr, raced) ==
    IF signErr /\ raced THEN "signer" ELSE Nil

\* Seal on a block: what it returns, what its task leaves in the cache and
\* in the engine, what the task offers on results (offered), whether the
\* value was sent, and the block it sends (sent = FALSE: it sends none, or
\* a result without a block)
Seal(block, cache, cg, xg, success, st, signOk, read, raced, hasState) ==
    LET header == block.header
        txhash == header.txHash
        mined == [header EXCEPT !.coinbase = AddrA]
        rb == recreateBlock(mined, st, block.txs, cg, xg, hasState)
        failed == [sent |-> FALSE, block |-> block, cache |-> cache]
        nilResult == [offered |-> "nil"] @@ Offer("nil", read)
    IN  IF header.number # 0 /\ ~success
        THEN failed @@ nilResult @@
             [callGas |-> cg, xferGas |-> xg, cause |-> "mine", ret |-> Nil]
        ELSE IF header.number # 0 /\ rb.panic
        THEN failed @@
             [offered |-> "none", sends |-> 0, received |-> "none", ended |-> TRUE,
              callGas |-> cg, xferGas |-> xg, cause |-> "panic", ret |-> Nil]
        ELSE IF header.number # 0 /\ rb.err # Nil
        THEN failed @@ nilResult @@
             [callGas |-> rb.callGas, xferGas |-> rb.xferGas, cause |-> "recreateBlock",
              ret |-> Nil]
        ELSE LET result == IF header.number # 0 THEN rb.block ELSE block
                 gas == IF header.number # 0
                        THEN [callGas |-> rb.callGas, xferGas |-> rb.xferGas]
                        ELSE [callGas |-> cg, xferGas |-> xg]
             IN  IF ~signOk
                 THEN failed @@ SignerFailure(read) @@ gas @@
                      [cause |-> "signerFn", ret |-> SealReturn(TRUE, raced)]
                 ELSE LET sealed == [result EXCEPT !.header.signature = TRUE]
                          added == lruAdd(cache, sealed.header.txHash, txhash)
                          offer == Offer("block", read)
                      IN  [ sent |-> offer.sends = 1, block |-> sealed,
                            cache |-> IF offer.sends = 1 THEN added
                                      ELSE SealHash(sealed.header, added).cache,
                            offered |-> "block", cause |-> Nil,
                            ret |-> SealReturn(FALSE, raced) ] @@ offer @@ gas

\* the n-th candidate of the miner: n transactions, finalized without a
\* coinbase
Candidate(n, number) ==
    LET txs == [i \in 1 .. n |-> TxNormal]
    IN  [ header |-> [ parentHash |-> "P1", uncleHash |-> uncleHash,
                       txHash |-> DeriveSha(txs), number |-> number,
                       gasLimit |-> MinGasLimit, coinbase |-> ZeroAddress,
                       signature |-> FALSE ],
          txs |-> txs ]

NoBlock == [header |-> Nil, txs |-> <<>>]

InitSeal ==
    /\ EngineInit
    /\ SeqIdle
    /\ ConcIdle
    /\ BatchIdle
    /\ FinIdle
    /\ EvmOff
    /\ ExtraOff
    /\ sealer = [ pc |-> "idle", cache |-> <<>>, calls |-> 0, varied |-> 0,
                  submitted |-> NoBlock, published |-> NoBlock, lastTxs |-> <<>>,
                  wasKey |-> FALSE, sealhash |-> Nil, found |-> Nil,
                  ret |-> Nil, cause |-> Nil, offered |-> "none", sends |-> 0,
                  received |-> "none", ended |-> TRUE, read |-> FALSE,
                  hasState |-> TRUE, mined |-> FALSE ]

SealFrame ==
    UNCHANGED <<knownStakes, nextKSPurge, clock, budget, seqVars, concVars,
                batchVars, finVars, evm, extraVars>>

\* the miner takes a candidate, a new one or one holding the transactions
\* of the block published last, and keeps its SealHash
MinerSubmit ==
    /\ sealer.pc \in {"idle", "resolved"}
    /\ sealer.calls < MaxSeals
    /\ \E number \in {0, 1}, again \in BOOLEAN :
         /\ again => sealer.lastTxs # <<>>
         /\ (number = 0 \/ again) => sealer.varied < MaxVariations
         /\ LET fresh == Candidate(sealer.calls + 1, number)
                block == IF again
                         THEN [fresh EXCEPT !.txs = sealer.lastTxs,
                                            !.header.txHash = DeriveSha(sealer.lastTxs)]
                         ELSE fresh
                sh == SealHash(block.header, sealer.cache)
            IN  sealer' = [sealer EXCEPT !.pc = "submitted",
                                         !.submitted = block,
                                         !.published = NoBlock,
                                         !.varied = IF number = 0 \/ again THEN @ + 1 ELSE @,
                                         !.wasKey = CacheIndex(sealer.cache, block.header.txHash) # 0,
                                         !.sealhash = sh.hash,
                                         !.found = Nil,
                                         !.ret = Nil, !.cause = Nil,
                                         !.offered = "none", !.sends = 0,
                                         !.received = "none", !.ended = TRUE,
                                         !.read = FALSE,
                                         !.hasState = TRUE, !.mined = FALSE,
                                         !.cache = sh.cache]
    /\ UNCHANGED <<callGas, xferGas>>
    /\ SealFrame

\* Seal(chain, block, results, stop)
DoSeal ==
    /\ sealer.pc = "submitted"
    /\ \E success \in BOOLEAN, st \in SealStates, signOk \in BOOLEAN, read \in BOOLEAN,
          raced \in BOOLEAN, hasState \in BOOLEAN :
         LET out == Seal(sealer.submitted, sealer.cache, callGas, xferGas,
                         success, st, signOk, read, raced, hasState)
             usual == success /\ st = UsualState /\ signOk /\ read /\ ~raced /\ hasState
         IN  /\ ~usual => sealer.varied < MaxVariations
             /\ sealer' = [sealer EXCEPT !.pc = IF out.sent THEN "published" ELSE "idle",
                                         !.calls = @ + 1,
                                         !.ret = out.ret, !.cause = out.cause,
                                         !.offered = out.offered, !.sends = out.sends,
                                         !.received = out.received, !.ended = out.ended,
                                         !.read = read,
                                         !.hasState = hasState,
                                         !.mined = success,
                                         !.varied = IF usual THEN @ ELSE @ + 1,
                                         !.cache = out.cache,
                                         !.published = IF out.sent THEN out.block ELSE NoBlock,
                                         !.lastTxs = IF out.sent THEN out.block.txs ELSE @]
             /\ callGas' = out.callGas
             /\ xferGas' = out.xferGas
    /\ SealFrame

\* the miner looks the published block up by its SealHash
MinerResolve ==
    /\ sealer.pc = "published"
    /\ LET sh == SealHash(sealer.published.header, sealer.cache)
       IN  sealer' = [sealer EXCEPT !.pc = "resolved", !.found = sh.hash, !.cache = sh.cache]
    /\ UNCHANGED <<callGas, xferGas>>
    /\ SealFrame

NextSeal == MinerSubmit \/ DoSeal \/ MinerResolve

SpecSeal == InitSeal /\ [][NextSeal]_vars

\* C20: for every block Seal publishes, SealHash of the published header
\* uses the transactions root SealHash used for the submitted header, and
\* the two seal hashes are equal, after any sequence of Seal calls.
C20_SealHashStable ==
    sealer.pc = "resolved" =>
        /\ sealer.found.txhash = sealer.sealhash.txhash
        /\ sealer.found = sealer.sealhash

\* the same, for the submitted headers whose TxHash is not a key of the
\* cache when the miner takes their SealHash
C20_StableForNewRoots ==
    (sealer.pc = "resolved" /\ ~sealer.wasKey) => sealer.found = sealer.sealhash

\* the ninth Seal call publishes a block that consensus transactions have
\* changed, and the miner finds it
C20_NinthSeal ==
    /\ sealer.pc = "resolved"
    /\ sealer.calls > CacheSize
    /\ Len(sealer.cache) = CacheSize
    /\ ~sealer.wasKey
    /\ sealer.published.header.txHash # sealer.submitted.header.txHash
    /\ sealer.found = sealer.sealhash

\* the last Seal call has failed: its task has published no block
SealFailed ==
    /\ sealer.calls > 0
    /\ sealer.pc = "idle"
    /\ sealer.cause \in {"mine", "recreateBlock", "signerFn"}

\* C21: whenever the task of Seal fails (mine without success, an error of
\* recreateBlock, an error of signerFn) it offers a result with a nil block
\* on the results channel before it ends.
C21_NilResultOnFailure ==
    SealFailed => /\ sealer.offered = "nil"
                  /\ sealer.read => sealer.received = "nil"

\* the same for the failures of mine and of recreateBlock
C21_NilResultUnlessSigner ==
    (SealFailed /\ sealer.cause # "signerFn")
        => /\ sealer.offered = "nil"
           /\ sealer.read => sealer.received = "nil"

\* C22: Seal returns nil, its task ends without waiting on the results
\* channel whether or not anyone receives, sends at most one value per call
\* and drops the value when the channel cannot accept it.
C22_NonBlockingPublish ==
    (sealer.calls > 0 /\ sealer.pc \in {"idle", "published"}) =>
        /\ sealer.ret = Nil
        /\ sealer.ended
        /\ sealer.sends <= 1
        /\ ~sealer.read => (sealer.sends = 0 /\ sealer.received = "none")

\* the same without the value Seal returns
C22_TaskNeverBlocks ==
    (sealer.calls > 0 /\ sealer.pc \in {"idle", "published"}) =>
        /\ sealer.ended
        /\ sealer.sends <= 1
        /\ ~sealer.read => (sealer.sends = 0 /\ sealer.received = "none")
        /\ sealer.read => sealer.received = sealer.offered

---------------------------------------------------------------------------
(* SetMinerCB: calls on one engine, each on its own goroutine.  A callback *)
(* is identified by the call that passed it; a call may pass a nil         *)
(* signerFn.                                                               *)

\* a nil function value, and the function a call (0: New) has passed
NilFn == <<>>

Fn(c) == <<c>>

MaxCBCalls == 2

CBCalls == 1 .. MaxCBCalls

\* the callbacks New() leaves in the engine: no signerFn, three defaults
NewCallbacks ==
    [signerFn |-> NilFn, accountsFn |-> Fn(0), peerCountFn |-> Fn(0), isMiningFn |-> Fn(0)]

CBArgs(c, signer) ==
    [signerFn |-> signer, accountsFn |-> Fn(c), peerCountFn |-> Fn(c), isMiningFn |-> Fn(c)]

InitCB ==
    /\ EngineInit
    /\ SeqIdle
    /\ ConcIdle
    /\ BatchIdle
    /\ FinIdle
    /\ EvmOff
    /\ SealerOff
    /\ MnOff
    /\ RwOff
    /\ \E signers \in [CBCalls -> BOOLEAN] :
         cb = [ pc |-> [c \in CBCalls |-> "call"],
                args |-> [c \in CBCalls |-> CBArgs(c, IF signers[c] THEN Fn(c) ELSE NilFn)],
                fns |-> NewCallbacks,
                order |-> <<>>,
                late |-> {} ]

CBFrame ==
    UNCHANGED <<engineVars, clock, budget, seqVars, concVars, batchVars, finVars,
                evm, sealer, mn, rw>>

\* if e.signerFn != nil { panic(...) }
CBCheck(c) ==
    /\ cb.pc[c] = "call"
    /\ cb' = [cb EXCEPT !.pc[c] = IF cb.fns.signerFn # NilFn THEN "panicked" ELSE "signerFn",
                        !.order = Append(@, c),
                        !.late = IF cb.order # <<>> /\ cb.pc[cb.order[1]] = "returned"
                                 THEN @ \cup {c} ELSE @]
    /\ CBFrame

\* the four assignments, in the order of the code
CBStore(c) ==
    /\ cb.pc[c] \in {"signerFn", "accountsFn", "peerCountFn", "isMiningFn"}
    /\ cb' = [cb EXCEPT
                !.fns = [@ EXCEPT ![cb.pc[c]] = cb.args[c][cb.pc[c]]],
                !.pc[c] = CASE cb.pc[c] = "signerFn" -> "accountsFn"
                            [] cb.pc[c] = "accountsFn" -> "peerCountFn"
                            [] cb.pc[c] = "peerCountFn" -> "isMiningFn"
                            [] cb.pc[c] = "isMiningFn" -> "returned"]
    /\ CBFrame

NextCB == \E c \in CBCalls : CBCheck(c) \/ CBStore(c)

SpecCB == InitCB /\ [][NextCB]_vars

\* C23: the first SetMinerCB call installs the four callbacks and every
\* later call panics and leaves the callbacks of the first call in place,
\* whatever the first call was given and also when calls run concurrently.
C23_SetOnce ==
    cb.order # <<>> =>
        LET first == cb.order[1]
        IN  /\ \A i \in 2 .. Len(cb.order) : cb.pc[cb.order[i]] = "panicked"
            /\ cb.pc[first] = "returned" => cb.fns = cb.args[first]

\* the same when the first call passed a signerFn and every other call
\* started after it had returned
C23_SetOnceWithSigner ==
    (/\ cb.order # <<>>
     /\ cb.args[cb.order[1]].signerFn # NilFn
     /\ \A i \in 2 .. Len(cb.order) : cb.order[i] \in cb.late) =>
        \A c \in cb.late : /\ cb.pc[c] = "panicked"
                           /\ cb.fns = cb.args[cb.order[1]]

\* a call that started after the first one returned has returned too
C23_SecondCallReturns ==
    \E c \in cb.late : cb.pc[c] = "returned"

---------------------------------------------------------------------------
(* processMasternodes: the storage of the Nuclear_MasternodeList object,   *)
(* a function from the slots that are set to their values.                 *)

MaxNodes == 2

MasternodeAddrs == {ZeroAddress, AddrA, AddrB}

\* addr.Hash(): the address, padded to the width of a hash
AddrHash(addr) == <<"hash", addr>>

\* the value 0x01 as a hash
SlotSet == <<"hash", 1>>

\* the storages processMasternodes can find: slots of earlier rosters
Storages ==
    { [k \in { AddrHash(a) : a \in S } |-> SlotSet] : S \in SUBSET MasternodeAddrs }

\* what enumerateActive() returns
Rosters == UNION { [1 .. n -> MasternodeAddrs] : n \in 0 .. MaxNodes }

\* state_obj.SetState(db, key, value)
SetState(storage, key, value) ==
    [k \in DOMAIN storage \cup {key} |-> IF k = key THEN value ELSE storage[k]]

\* state_obj.CleanupStorage(keep): the slots that are not kept are removed
CleanupStorage(storage, keep) ==
    [k \in DOMAIN storage \cap keep |-> storage[k]]

\* only the addresses that are new are kept
RECURSIVE MasternodeLoop_NewOnly(_, _, _)
MasternodeLoop_NewOnly(storage, keep, masternodes) ==
    IF masternodes = <<>> THEN [storage |-> storage, keep |-> keep]
    ELSE LET addr_hash == AddrHash(Head(masternodes))
         IN  MasternodeLoop_NewOnly(
                 SetState(storage, addr_hash, SlotSet),
                 IF addr_hash \in DOMAIN storage THEN keep ELSE keep \cup {addr_hash},
                 Tail(masternodes))

\* the loop over the unpacked list: each address is set and kept
RECURSIVE MasternodeLoop(_, _, _)
MasternodeLoop(storage, keep, masternodes) ==
    IF masternodes = <<>> THEN [storage |-> storage, keep |-> keep]
    ELSE LET addr_hash == AddrHash(Head(masternodes))
         IN  MasternodeLoop(SetState(storage, addr_hash, SlotSet),
                            keep \cup {addr_hash},
                            Tail(masternodes))

\* processMasternodes on a state with this storage, when the call and the
\* unpacking go as given
MasternodeSync(storage, masternodes, callOk, unpackOk) ==
    IF ~callOk THEN [err |-> "call", storage |-> storage]
    ELSE IF ~unpackOk THEN [err |-> "unpack", storage |-> storage]
    ELSE LET l == MasternodeLoop(storage, {}, masternodes)
         IN  [err |-> Nil, storage |-> CleanupStorage(l.storage, l.keep)]

InitMN ==
    /\ EngineInit
    /\ SeqIdle
    /\ ConcIdle
    /\ BatchIdle
    /\ FinIdle
    /\ EvmOff
    /\ SealerOff
    /\ CbOff
    /\ RwOff
    /\ \E storage \in Storages, roster \in Rosters, callOk \in BOOLEAN, unpackOk \in BOOLEAN :
         mn = [ pc |-> "first", initial |-> storage, storage |-> storage,
                roster |-> roster, callOk |-> callOk, unpackOk |-> unpackOk,
                err |-> Nil, first |-> storage ]

MNFrame ==
    UNCHANGED <<engineVars, clock, budget, seqVars, concVars, batchVars, finVars,
                evm, sealer, cb, rw>>

\* the first finalisation
DoMasternodes ==
    /\ mn.pc = "first"
    /\ LET out == MasternodeSync(mn.storage, mn.roster, mn.callOk, mn.unpackOk)
       IN  mn' = [mn EXCEPT !.pc = "second", !.storage = out.storage,
                            !.first = out.storage, !.err = out.err]
    /\ MNFrame

\* the second finalisation of the same header: against the initial state, or
\* against the state the first one left
DoMasternodesAgain ==
    /\ mn.pc = "second"
    /\ mn.err = Nil
    /\ \E from \in {mn.initial, mn.first} :
         LET out == MasternodeSync(from, mn.roster, mn.callOk, mn.unpackOk)
         IN  mn' = [mn EXCEPT !.pc = "done", !.storage = out.storage, !.err = out.err]
    /\ MNFrame

NextMN == DoMasternodes \/ DoMasternodesAgain

SpecMN == InitMN /\ [][NextMN]_vars

\* the storage that holds exactly the slots of a roster
RosterStorage(roster) ==
    [k \in { AddrHash(roster[i]) : i \in DOMAIN roster } |-> SlotSet]

\* C24: after a successful processMasternodes the storage of the masternode
\* list is exactly {addr.Hash() -> 0x01 : addr in the enumerateActive()
\* result}, and a second finalisation leaves the storage of the first.
C24_RosterSync ==
    (mn.pc \in {"second", "done"} /\ mn.err = Nil) =>
        /\ mn.storage = RosterStorage(mn.roster)
        /\ mn.storage = mn.first

\* a slot that is no longer in the roster has been pruned, a slot that still
\* is has been kept, and a new one added
C24_Witness ==
    /\ mn.pc = "done"
    /\ mn.err = Nil
    /\ \E k \in DOMAIN mn.initial : k \notin DOMAIN mn.storage
    /\ \E k \in DOMAIN mn.initial : k \in DOMAIN mn.storage
    /\ \E k \in DOMAIN mn.storage : k \notin DOMAIN mn.initial

---------------------------------------------------------------------------
(* processBlockRewards called several times in succession on one state,    *)
(* each time with empty lists, after processConsensusGasLimits.            *)

MaxRewardCalls == 5

\* the receipts processBlockRewards returns: one more for each transaction
\* it has appended
RewardReceipts(receipts, before, after) ==
    receipts \o [i \in 1 .. (after - before) |-> "receipt"]

InitRW ==
    /\ EngineInit
    /\ SeqIdle
    /\ ConcIdle
    /\ BatchIdle
    /\ FinIdle
    /\ EvmOff
    /\ SealerOff
    /\ CbOff
    /\ MnOff
    /\ \E st \in States :
         rw = [ pc |-> "gasLimits", st |-> st, gasErr |-> Nil, calls |-> 0,
                txs |-> <<>>, receipts |-> <<>>, err |-> Nil ]

RWFrame ==
    UNCHANGED <<knownStakes, nextKSPurge, clock, budget, seqVars, concVars, batchVars,
                finVars, evm, sealer, cb, mn>>

\* err := engine.processConsensusGasLimits(chain, header, statedb)
RwGasLimits ==
    /\ rw.pc = "gasLimits"
    /\ LET gl == processConsensusGasLimits(rw.st, callGas, xferGas)
       IN  /\ rw' = [rw EXCEPT !.pc = "rewards", !.gasErr = gl.err]
           /\ callGas' = gl.callGas
           /\ xferGas' = gl.xferGas
    /\ RWFrame

\* txs, receipts, err := engine.processBlockRewards(chain, header, statedb, nil, nil)
RwRewards ==
    /\ rw.pc = "rewards"
    /\ rw.calls < MaxRewardCalls
    /\ LET r == processBlockRewards(rw.st, NewSlice(<<>>, 0))
       IN  rw' = [rw EXCEPT !.calls = @ + 1,
                            !.txs = SubSeq(r.s.cur, 1, r.s.len),
                            !.receipts = RewardReceipts(<<>>, 0, r.s.len),
                            !.err = r.err]
    /\ UNCHANGED <<callGas, xferGas>>
    /\ RWFrame

NextRW == RwGasLimits \/ RwRewards

SpecRW == InitRW /\ [][NextRW]_vars

\* the state of the test: the reward contract pays one reward and does not
\* fail
PaysOneReward(st) == st.rewards = <<TxReward>> /\ st.failAt # "rewards"

---------------------------------------------------------------------------
(* Properties of Finalize: failures and the header fields it writes *)

\* the steps of govFinalize in their order
StepOrder == <<"gasLimits", "rewards", "masternodes", "blacklists", "drainable", "migration">>

\* the step an error comes from
StepOfErr(err) == IF err \in {"evm", "unpack"} THEN "gasLimits" ELSE err

\* the steps entered are the first ones of the order, and the last of them
\* is the one that failed
StoppedAtFailure(r) ==
    /\ r.evaluated # <<>>
    /\ r.evaluated = SubSeq(StepOrder, 1, Len(r.evaluated))
    /\ r.evaluated[Len(r.evaluated)] = StepOfErr(r.stepErr)

\* C26: when a step of finalisation fails, no later step is executed,
\* header.Root and header.UncleHash are not written, and Finalize returns
\* the error with no block.
C26_ShortCircuit ==
    (run1.called /\ ~run2.called /\ run1.stepErr # Nil) =>
        /\ StoppedAtFailure(run1)
        /\ fin.root = <<>>
        /\ fin.uncleHash = Nil
        /\ run1.err = run1.stepErr
        /\ ~run1.hasBlock

\* the same without the two header fields
C26_StepsShortCircuit ==
    (run1.called /\ ~run2.called /\ run1.stepErr # Nil) =>
        /\ StoppedAtFailure(run1)
        /\ run1.err = run1.stepErr
        /\ ~run1.hasBlock

\* the header fields after a failure: both are written
C26_HeaderWrittenOnFailure ==
    (run1.called /\ ~run2.called /\ run1.stepErr # Nil) =>
        /\ fin.root = IntermediateRoot(fin.state,
                          SubSeq(run1.evaluated, 1, Len(run1.evaluated) - 1),
                          callGas, xferGas)
        /\ fin.uncleHash = uncleHash

\* the Finalize call made last
LastRun == IF run2.called THEN run2 ELSE run1

\* C27 as stated: after every successful Finalize, the zero coinbase
\* included, header.Root is the intermediate root of the state at that
\* point and header.UncleHash the hash of the empty uncle list.
C27_RootAndUncleHash ==
    (LastRun.called /\ LastRun.err = Nil) =>
        /\ fin.root = IntermediateRoot(fin.state, LastRun.evaluated, callGas, xferGas)
        /\ fin.uncleHash = uncleHash

\* C27: after every successful Finalize header.UncleHash is the hash of the
\* empty uncle list; header.Root is the intermediate root of the state at
\* that point when the coinbase is set, and is left as it was when the
\* coinbase is the zero address.
C27_RootWhenCoinbaseSet ==
    (LastRun.called /\ LastRun.err = Nil) =>
        /\ fin.uncleHash = uncleHash
        /\ fin.coinbase # ZeroAddress =>
              fin.root = IntermediateRoot(fin.state, LastRun.evaluated, callGas, xferGas)
        /\ fin.coinbase = ZeroAddress => fin.root = <<>>

\* a successful Finalize with a coinbase has run the six steps
C27_Witness ==
    /\ run1.called
    /\ ~run2.called
    /\ run1.err = Nil
    /\ fin.coinbase # ZeroAddress
    /\ run1.evaluated = StepOrder
    /\ run1.derived # <<>>
    /\ fin.root # <<>>

---------------------------------------------------------------------------
(* The stake table after a checkDoS call that accepts, one caller *)

\* the last call has run checkDoS and checkDoS has accepted the header
DoSAccepted(l) == l.called /\ Reached(l, "checkDoS") /\ l.out.err = Nil

\* the entry is expired at the now of the call, in the engine's arithmetic
Expired(entry, now) == Sub64(now, entry.ts) >= StakeThrottle

\* C28: when checkDoS accepts a header at time now with now > nextKSPurge,
\* afterwards no entry with now - ts >= StakeThrottle remains, every entry
\* with now - ts < StakeThrottle is still there and nextKSPurge = now +
\* StakeThrottle; with now <= nextKSPurge no entry is deleted and
\* nextKSPurge is unchanged.
C28_LazyPurge ==
    DoSAccepted(last) =>
        LET now == last.now2
            key == KnownStakeKey(last.inp)
        IN  IF now > last.purge
            THEN /\ \A k \in DOMAIN last.out.ks : ~Expired(last.out.ks[k], now)
                 /\ \A k \in DOMAIN last.ks \ {key} :
                       ~Expired(last.ks[k], now) =>
                           (k \in DOMAIN last.out.ks /\ last.out.ks[k] = last.ks[k])
                 /\ key \in DOMAIN last.out.ks
                 /\ last.out.purge = Add64(now, StakeThrottle)
            ELSE /\ DOMAIN last.ks \subseteq DOMAIN last.out.ks
                 /\ \A k \in DOMAIN last.ks \ {key} : last.out.ks[k] = last.ks[k]
                 /\ last.out.purge = last.purge

\* a sweep has kept an entry of another key that is still active
C28_Witness ==
    /\ DoSAccepted(last)
    /\ last.now2 > last.purge
    /\ \E k \in DOMAIN last.ks \ {KnownStakeKey(last.inp)} :
          /\ ~Expired(last.ks[k], last.now2)
          /\ last.ks[k].ts # last.now2
          /\ k \in DOMAIN last.out.ks

\* a sweep has deleted an expired entry of another key
C28_SweepDeletes ==
    /\ DoSAccepted(last)
    /\ last.now2 > last.purge
    /\ \E k \in DOMAIN last.ks \ {KnownStakeKey(last.inp)} :
          Expired(last.ks[k], last.now2) /\ k \notin DOMAIN last.out.ks

\* C29: whenever checkDoS accepts a header, the entry of its (coinbase,
\* parentHash) afterwards is (header hash, now); when the old-fork rule does
\* not reject, the same block observed again is accepted, and so is another
\* block observed StakeThrottle or more after the timestamp of the entry.
C29_LatestObservationWins ==
    /\ DoSAccepted(last) =>
          LET key == KnownStakeKey(last.inp)
          IN  /\ key \in DOMAIN last.out.ks
              /\ last.out.ks[key] = [block |-> Hash(last.inp), ts |-> last.now2]
    /\ ( /\ last.called
         /\ Reached(last, "checkDoS")
         /\ ~OldForkCondition(last)
         /\ KnownStakeKey(last.inp) \in DOMAIN last.ks
         /\ \/ last.ks[KnownStakeKey(last.inp)].block = Hash(last.inp)
            \/ Expired(last.ks[KnownStakeKey(last.inp)], last.now2) )
          => last.out.err = Nil

\* the same block observed again at a later time: its timestamp is renewed
C29_Witness ==
    /\ DoSAccepted(last)
    /\ KnownStakeKey(last.inp) \in DOMAIN last.ks
    /\ last.ks[KnownStakeKey(last.inp)].block = Hash(last.inp)
    /\ last.ks[KnownStakeKey(last.inp)].ts < last.now2
    /\ last.out.ks[KnownStakeKey(last.inp)].ts = last.now2

\* another block replaces an expired entry
C29_ExpiredReplaced ==
    /\ DoSAccepted(last)
    /\ KnownStakeKey(last.inp) \in DOMAIN last.ks
    /\ last.ks[KnownStakeKey(last.inp)].block # Hash(last.inp)
    /\ last.out.ks[KnownStakeKey(last.inp)].block = Hash(last.inp)

---------------------------------------------------------------------------
(* VerifySeal on two engines *)

\* C30: for the same header, chain and parent state the verdict of
\* VerifySeal on an engine whose gas limits a finalisation has replaced is
\* the verdict of a fresh engine (callGas 30000, xferGas 0).
C30_VerdictIndependentOfGas ==
    last.called => last.out.err = VerifySeal(last.inp, InitialCallGas)

\* the same for the headers whose seal needs no call of the coinbase
\* contract
C30_DirectSealIndependent ==
    (last.called /\ ~(SealRecovered(last.inp) /\ last.inp.recovered # last.inp.coinbase
                      /\ last.inp.hasCode))
        => last.out.err = VerifySeal(last.inp, InitialCallGas)

\* a delegated seal that a fresh engine accepts is rejected
C30_DelegatedSealRejected ==
    /\ last.called
    /\ last.cg # InitialCallGas
    /\ VerifySeal(last.inp, InitialCallGas) = Nil
    /\ last.out.err # Nil

---------------------------------------------------------------------------
(* Seal when the state of the parent block is not available *)

\* the last Seal call has mined its block and recreateBlock has found no
\* state for the parent
SealWithoutState ==
    /\ sealer.calls > 0
    /\ sealer.pc \in {"idle", "published"}
    /\ sealer.submitted.header.number # 0
    /\ sealer.mined
    /\ ~sealer.hasState

\* C31: when CalculateBlockState returns nil, recreateBlock returns
\* ErrUnknownAncestor and Seal publishes a nil result.
C31_MissingStateFailsCleanly ==
    SealWithoutState =>
        /\ sealer.cause = "recreateBlock"
        /\ sealer.offered = "nil"
        /\ sealer.read => sealer.received = "nil"

\* what the task does instead: it panics at the first use of the state,
\* having offered nothing
C31_MissingStatePanics ==
    SealWithoutState =>
        /\ sealer.cause = "panic"
        /\ sealer.offered = "none"
        /\ sealer.sends = 0

---------------------------------------------------------------------------
(* A rejected header and the DoS table *)

\* the last call was rejected by the stake throttle
Throttled(l) ==
    /\ l.called
    /\ Reached(l, "checkDoS")
    /\ ActiveOtherEntry(l)
    /\ l.out.err = "ErrDoSThrottle"

\* C32: a VerifyHeader call that returns an error leaves knownStakes and
\* nextKSPurge as they were; a throttled header neither replaces the entry
\* of its key nor refreshes its timestamp.
C32_ErrorLeavesTable ==
    /\ (last.called /\ last.out.err # Nil) => EngineUntouched(last)
    /\ Throttled(last) =>
          LET k == KnownStakeKey(last.inp)
          IN  /\ k \in DOMAIN knownStakes
              /\ knownStakes[k].block = last.ks[k].block
              /\ knownStakes[k].ts = last.ks[k].ts

\* a header throttled at an instant later than the entry's timestamp
C32_Witness ==
    /\ Throttled(last)
    /\ last.now2 # last.ks[KnownStakeKey(last.inp)].ts
    /\ knownStakes = last.ks
    /\ nextKSPurge = last.purge

---------------------------------------------------------------------------
(* Termination of the VerifyHeaders task *)

\* every header's result is on the results channel or received, and the
\* loop has run to its end
AllDelivered == task.pc = "done" /\ Len(Delivered) = Len(headers)

\* the caller has sent fewer ready tokens than there are headers
FewerTokens == readySent < Len(headers)

\* C33: with len(headers) ready tokens and no abort the task delivers all
\* len(headers) results and ends; its sends on results never block, the
\* buffer having room for len(headers) values; with fewer tokens and no
\* abort the task never ends and stays blocked on ready.
C33_EndsWhenCallerLets ==
    /\ ((~abort /\ readySent = Len(headers)) ~> (abort \/ AllDelivered))
    /\ [](task.pc = "send" => Len(results) < Len(headers))
    /\ []((~abort /\ FewerTokens) => task.pc # "done")
    /\ (<>[](~abort /\ FewerTokens) => <>[](task.pc = "ready" /\ ready = 0))

\* no abort, three tokens for three headers: the task has ended with all
\* three results buffered, none of them received yet
C33_Witness ==
    /\ ~abort
    /\ Len(headers) = 3
    /\ readySent = 3
    /\ task.pc = "done"
    /\ Len(results) = 3
    /\ received = <<>>

\* no abort and two tokens for three headers: the task waits for the third
C33_BlockedOnReady ==
    /\ ~abort
    /\ Len(headers) = 3
    /\ readySent = 2
    /\ ready = 0
    /\ task.pc = "ready"
    /\ Len(Delivered) = 2

---------------------------------------------------------------------------
(* isActive when the clock runs backwards *)

\* the last call reached the stake throttle, past the old-fork rule, and
\* found under its key an entry of another block
FoundOtherBlock(l) ==
    /\ l.called
    /\ Reached(l, "checkDoS")
    /\ ~OldForkCondition(l)
    /\ KnownStakeKey(l.inp) \in DOMAIN l.ks
    /\ l.ks[KnownStakeKey(l.inp)].block # Hash(l.inp)

\* ts <= now < ts + StakeThrottle, in unbounded integers
InWindow(ts, now) == ts <= now /\ now < ts + StakeThrottle

\* ts + StakeThrottle does not pass the end of the word
WindowFits(ts) == ts <= Word - StakeThrottle

\* the entries of other keys that `now` precedes are gone after a sweep
SweptAhead(l, fits) ==
    (l.called /\ Reached(l, "checkDoS") /\ l.out.err = Nil /\ l.purge < l.now2) =>
        \A k \in DOMAIN l.ks \ {KnownStakeKey(l.inp)} :
            (l.now2 < l.ks[k].ts /\ (fits => WindowFits(l.ks[k].ts)))
                => k \notin DOMAIN l.out.ks

\* C34 as stated: an entry is active exactly when ts <= now < ts +
\* StakeThrottle; with now < ts the subtraction wraps, the entry is inactive,
\* another block of the same key is accepted and a sweep deletes the entry.
C34_ActiveInWindow ==
    /\ FoundOtherBlock(last) =>
          LET ts == last.ks[KnownStakeKey(last.inp)].ts
          IN  /\ last.out.err = "ErrDoSThrottle" <=> InWindow(ts, last.now2)
              /\ last.now2 < ts => last.out.err = Nil
    /\ SweptAhead(last, FALSE)

\* C34: an entry is active exactly when (now - ts) mod 2^64 is less than
\* StakeThrottle; for an entry with ts <= 2^64 - StakeThrottle that is
\* ts <= now < ts + StakeThrottle, and with now < ts the subtraction wraps,
\* the entry is inactive, another block of the same key is accepted and a
\* sweep deletes the entry.
C34_ActiveModuloWord ==
    /\ FoundOtherBlock(last) =>
          LET ts == last.ks[KnownStakeKey(last.inp)].ts
          IN  /\ last.out.err = "ErrDoSThrottle"
                    <=> (last.now2 + Word - ts) % Word < StakeThrottle
              /\ WindowFits(ts) =>
                    /\ last.out.err = "ErrDoSThrottle" <=> InWindow(ts, last.now2)
                    /\ last.now2 < ts => last.out.err = Nil
    /\ SweptAhead(last, TRUE)

\* the clock was set back: another block of the key is accepted at an
\* instant before the entry's timestamp
C34_Witness ==
    /\ FoundOtherBlock(last)
    /\ WindowFits(last.ks[KnownStakeKey(last.inp)].ts)
    /\ last.now2 < last.ks[KnownStakeKey(last.inp)].ts
    /\ last.out.err = Nil
    /\ knownStakes[KnownStakeKey(last.inp)] = [block |-> Hash(last.inp), ts |-> last.now2]

\* a sweep at an instant before an entry's timestamp has deleted the entry
C34_SweptAheadReached ==
    /\ last.called /\ last.out.err = Nil /\ last.purge < last.now2
    /\ \E k \in DOMAIN last.ks \ {KnownStakeKey(last.inp)} :
          /\ last.now2 < last.ks[k].ts
          /\ WindowFits(last.ks[k].ts)
          /\ k \notin DOMAIN knownStakes

\* an entry stamped in the last seconds of the word is still active just
\* after the clock has wrapped
C34_ActiveAcrossWrap ==
    /\ FoundOtherBlock(last)
    /\ last.now2 < last.ks[KnownStakeKey(last.inp)].ts
    /\ last.out.err = "ErrDoSThrottle"

====
